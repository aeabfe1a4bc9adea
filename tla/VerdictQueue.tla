------------------------------- MODULE VerdictQueue -------------------------------
(***************************************************************************)
(* deck's backlog verdicts (src/tools/deck/backlog.go, backlog_judge.go):  *)
(* the loop that reads the inventory, the worker that judges one issue at  *)
(* a time, and what a person asks for: one verdict, or Refresh now.  One   *)
(* action is a stretch under Backlog.mu.                                   *)
(*                                                                         *)
(* A basis, which an issue's facts hash to, is a number that grows when    *)
(* they change.  The budget is shared with the summaries and open here, as *)
(* is which of the shortlisted issues is due for an automatic verdict.     *)
(***************************************************************************)
EXTENDS Integers, FiniteSets, SequencesExt

CONSTANTS Issue,
          Role,        \* the roles a person may pick
          VerdictRole, \* the default one
          MaxBasis,    \* bound of an issue's changes
          MaxRequests  \* bound of the requests by hand

VARIABLES
    issue,   \* each issue at its forge: its basis, and whether it is shortlisted
    loop,    \* the facts loop, its inventory and whether Refresh now waits for it
    refreshVerdicts,
    inv,     \* the last good inventory
    queue, manual,
    judge,   \* the worker: judging, judgingBasis and how the issue was picked
    verdict, \* the basis of each issue's cached verdict, 0 for none
    owed,    \* the role asked for last, until a judgement that started later ends
    wanted,  \* the basis that Refresh now found without a verdict, likewise
    requests

vars == <<issue, loop, refreshVerdicts, inv, queue, manual, judge, verdict, owed, wanted, requests>>

None == "none"

\* An inventory has finitely many issues; that none was asked for is no role.
Parameters ==
    /\ IsFiniteSet(Issue) /\ MaxBasis \in Nat \ {0} /\ MaxRequests \in Nat
    /\ None \notin Role \cup {VerdictRole}

Unlisted == [basis |-> 0, listed |-> FALSE]
Idle == [judging |-> None, basis |-> 0, role |-> None, byHand |-> FALSE]
NotOwed == [role |-> None, started |-> FALSE]
Owe(role) == [role |-> role, started |-> FALSE]

Init ==
    /\ issue \in [Issue -> [basis : {1}, listed : BOOLEAN]]
    /\ loop = [at |-> "start", all |-> FALSE, inv |-> [i \in Issue |-> Unlisted]]
    /\ refreshVerdicts = FALSE /\ inv = [i \in Issue |-> Unlisted]
    /\ queue = <<>> /\ manual = [i \in Issue |-> None]
    /\ judge = Idle /\ verdict = [i \in Issue |-> 0]
    /\ owed = [i \in Issue |-> NotOwed] /\ wanted = [i \in Issue |-> 0]
    /\ requests = 0

Queued == {i \in Issue : manual[i] # None}
Ask == requests < MaxRequests /\ requests' = requests + 1

\* queueVerdictLocked, of the queue: the issue goes to the front, the others keep
\* their order, in a queue that holds none twice.
Before(k, i) == \E m, n \in DOMAIN queue : m < n /\ queue[m] = k /\ queue[n] = i
ToFront(i) ==
    \E rest \in SetToSeqs(ToSet(queue) \ {i}) :
        /\ \A m, n \in DOMAIN rest : m < n => Before(rest[m], rest[n])
        /\ queue' = <<i>> \o rest

RequestVerdict(i, role) ==
    /\ Ask /\ inv[i].listed
    /\ ToFront(i) /\ manual' = [manual EXCEPT ![i] = role]
    /\ owed' = [owed EXCEPT ![i] = Owe(role)]
    /\ UNCHANGED <<issue, loop, refreshVerdicts, inv, judge, verdict, wanted>>

RequestRefreshAll ==
    /\ Ask /\ refreshVerdicts' = TRUE
    /\ UNCHANGED <<issue, loop, inv, queue, manual, judge, verdict, owed, wanted>>

-----------------------------------------------------------------------------
(* The facts loop *)

\* A Refresh now that comes after the read has started waits for the next one.
StartRefresh ==
    /\ loop.at = "start"
    /\ loop' = [loop EXCEPT !.at = "read", !.all = refreshVerdicts] /\ refreshVerdicts' = FALSE
    /\ UNCHANGED <<issue, inv, queue, manual, judge, verdict, owed, wanted, requests>>

ReadInventory ==
    /\ loop.at = "read" /\ loop' = [loop EXCEPT !.at = "publish", !.inv = issue]
    /\ UNCHANGED <<issue, refreshVerdicts, inv, queue, manual, judge, verdict, owed, wanted, requests>>

Outdated(i, in) == in[i].listed /\ verdict[i] # in[i].basis

\* The running verdict covers its issue unless that changed since it started.
Covered(i, in) == judge.judging = i /\ judge.basis = in[i].basis

\* refresh: the inventory, or the last good one after a failure, and what
\* Refresh now queues of it, behind what was asked for (queueOutdatedLocked).
\* pruneVerdicts drops a verdict of an issue that left; here it stays.
Publish ==
    /\ loop.at = "publish"
    /\ inv' \in {inv, loop.inv}
    /\ loop' = [at |-> "start", all |-> FALSE, inv |-> [i \in Issue |-> Unlisted]]
    /\ LET outdated == IF loop.all THEN {i \in Issue : Outdated(i, inv')} ELSE {}
           new == {i \in outdated \ Queued : ~ Covered(i, inv')}
       IN  /\ \E order \in SetToSeqs(new) : queue' = queue \o order
           /\ manual' = [i \in Issue |-> IF i \in new THEN VerdictRole ELSE manual[i]]
           /\ owed' = [i \in Issue |-> IF i \in new THEN Owe(VerdictRole) ELSE owed[i]]
           /\ wanted' = [i \in Issue |-> IF i \in outdated THEN inv'[i].basis ELSE wanted[i]]
    /\ UNCHANGED <<issue, refreshVerdicts, judge, verdict, requests>>

-----------------------------------------------------------------------------
(* The worker *)

\* judgeNext takes the queue's head, or, when nothing was asked for, an issue
\* of the shortlist, with the basis it is judged against.  One that left the
\* shortlist is dropped.
Pick(i, role, byHand) ==
    judge' = IF inv[i].listed
             THEN [judging |-> i, basis |-> inv[i].basis, role |-> role, byHand |-> byHand] ELSE Idle

JudgeQueued ==
    /\ judge = Idle /\ queue # <<>>
    /\ LET i == Head(queue) IN
         /\ Pick(i, manual[i], TRUE)
         /\ manual' = [manual EXCEPT ![i] = None]
         /\ owed' = [owed EXCEPT ![i] = IF inv[i].listed THEN [@ EXCEPT !.started = owed[i].role # None] ELSE NotOwed]
         /\ wanted' = [wanted EXCEPT ![i] = IF inv[i].listed THEN @ ELSE 0]
    /\ queue' = Tail(queue)
    /\ UNCHANGED <<issue, loop, refreshVerdicts, inv, verdict, requests>>
JudgeAutomatic ==
    /\ judge = Idle /\ queue = <<>>
    /\ \E i \in Issue : inv[i].listed /\ Pick(i, VerdictRole, FALSE)
    /\ UNCHANGED <<issue, loop, refreshVerdicts, inv, queue, manual, verdict, owed, wanted, requests>>

\* The judgement has an outcome: a verdict or a failure.
Judged ==
    /\ judge # Idle /\ judge' = Idle
    /\ verdict' \in {verdict, [verdict EXCEPT ![judge.judging] = judge.basis]}
    /\ owed' = [owed EXCEPT ![judge.judging] = IF @.started THEN NotOwed ELSE @]
    /\ wanted' = [wanted EXCEPT ![judge.judging] = IF @ <= judge.basis THEN 0 ELSE @]
    /\ UNCHANGED <<issue, loop, refreshVerdicts, inv, queue, manual, requests>>

\* Without budget, a request by hand keeps its place unless it was asked for
\* again.
PutBack(i) ==
    IF manual[i] # None THEN UNCHANGED <<queue, manual>>
    ELSE ToFront(i) /\ manual' = [manual EXCEPT ![i] = judge.role]

\* An automatic one is left to be picked again, one that Refresh now took for
\* covered included.
NoBudget ==
    LET i == judge.judging IN
    /\ judge # Idle /\ judge' = Idle
    /\ IF judge.byHand THEN PutBack(i) /\ UNCHANGED wanted
       ELSE UNCHANGED <<queue, manual>> /\ wanted' = [wanted EXCEPT ![i] = IF @ <= judge.basis THEN 0 ELSE @]
    /\ owed' = [owed EXCEPT ![i].started = FALSE]
    /\ UNCHANGED <<issue, loop, refreshVerdicts, inv, verdict, requests>>

\* An issue changes at its forge.
Change(i) ==
    /\ issue[i].basis < MaxBasis
    /\ issue' = [issue EXCEPT ![i] = [basis |-> issue[i].basis + 1, listed |-> ~ issue[i].listed]]
       \/ issue' = [issue EXCEPT ![i].basis = @ + 1]
    /\ UNCHANGED <<loop, refreshVerdicts, inv, queue, manual, judge, verdict, owed, wanted, requests>>

Next ==
    \/ RequestRefreshAll \/ StartRefresh \/ ReadInventory \/ Publish
    \/ JudgeQueued \/ JudgeAutomatic \/ Judged \/ NoBudget
    \/ \E i \in Issue : Change(i)
    \/ \E i \in Issue, role \in Role : RequestVerdict(i, role)

Spec == Init /\ [][Next]_vars

-----------------------------------------------------------------------------
(* Properties *)

\* The type invariant.
TypeOK ==
    /\ queue \in Seq(Issue) /\ manual \in [Issue -> Role \cup {VerdictRole, None}]
    /\ judge \in [judging : Issue \cup {None}, basis : 0 .. MaxBasis, role : Role \cup {VerdictRole, None},
                  byHand : BOOLEAN]
    /\ verdict \in [Issue -> 0 .. MaxBasis] /\ wanted \in [Issue -> 0 .. MaxBasis]

\* What a person asked for is served: until a judgement that started after the
\* request has an outcome, the issue is queued once with the role asked for
\* last or judged with it; and an issue that Refresh now found without a verdict
\* is queued, or judged on a basis that is not older (queueVerdictLocked,
\* queueOutdatedLocked, judgeNext).
RequestsAreKept ==
    \A i \in Issue :
        /\ owed[i].role # None =>
              IF owed[i].started THEN judge.judging = i /\ judge.role = owed[i].role
              ELSE manual[i] = owed[i].role /\ i \in ToSet(queue)
        /\ wanted[i] # 0 => \/ i \in ToSet(queue)
                            \/ judge.judging = i /\ judge.basis >= wanted[i]
        /\ Cardinality({n \in DOMAIN queue : queue[n] = i}) = IF manual[i] = None THEN 0 ELSE 1
=============================================================================
