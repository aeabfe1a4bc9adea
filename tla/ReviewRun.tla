-------------------------------- MODULE ReviewRun --------------------------------
(***************************************************************************)
(* `revkit repo-review' (src/tools/revkit): runs over one commit, some at  *)
(* the same time, with reviewers that find problems and check each other's *)
(* findings, a matcher that joins them with the findings store, and        *)
(* --resume, which reuses the jobs of the latest run that left a report.   *)
(* Reviews are numbered as their first runs start, which is how their      *)
(* names sort: the k-th run's has 2k, another commit's an odd number.  One *)
(* lens stands for all, a reviewer reports at most one finding through it, *)
(* and its prompt does not change; the titles here differ in more than     *)
(* case and spacing.  A run that is killed takes no further step.  Until   *)
(* it reads the store a run does nothing that another sees, so the next    *)
(* one starts after that.                                                  *)
(***************************************************************************)
EXTENDS Integers, Sequences, SequencesExt, FiniteSetsExt

CONSTANTS Selection, \* the reviewers a run may be asked for, each selection in its order
          Title,
          KnownLimit, \* how many known problems the matcher is shown
          MaxRuns, MaxReported \* bounds

VARIABLES
    matched,  \* did a matcher ever answer?
    run,      \* the runs
    store,    \* the problems, by number
    reported  \* how many findings reviewers reported

vars == <<matched, run, store, reported>>

Run == 1 .. MaxRuns
Reviewer == UNION {ToSet(who) : who \in Selection}
Verdict == {"unverified", "confirmed"} \* partly and rejected are as good as confirmed here
NoJob == [status |-> "none", by |-> 0]
NoRun == [at |-> "none", who |-> <<>>, previous |-> 0, review |-> 0,
          find |-> [r \in Reviewer |-> "none"], verify |-> [r \in Reviewer |-> NoJob],
          found |-> <<>>, interrupted |-> FALSE, known |-> {}, answered |-> FALSE, targets |-> <<>>,
          complete |-> FALSE]

Init ==
    /\ matched = FALSE /\ reported = 0
    /\ run = [k \in Run |-> NoRun]
    /\ store = <<>>

TypeOK ==
    /\ matched \in BOOLEAN /\ reported \in 0 .. MaxReported
    /\ \A k \in Run :
         /\ run[k].at \in {"none", "find", "verify", "read", "store", "write", "done"}
         /\ ToSet(run[k].found) \subseteq
                [by : Reviewer, title : Title, verdict : Verdict, verifier : Reviewer \cup {0},
                 id : 0 .. Len(store), carried : 0 .. Len(store)]
         /\ run[k].known \subseteq DOMAIN store /\ run[k].previous < k
    /\ \A i \in DOMAIN store :
         /\ store[i].verdict \in Verdict
         /\ store[i].first \in store[i].reviews /\ store[i].describedBy \in store[i].reviews

-----------------------------------------------------------------------------
(* Finding *)

Latest == Max({0} \cup {k \in Run : run[k].at = "done"})

\* latestRun: --resume goes on with the latest run that left a report.
Start(k, who, resume) ==
    LET previous == IF resume THEN Latest ELSE 0 IN
    /\ run[k].at = "none" /\ \A j \in 1 .. k - 1 : run[j].at \notin {"none", "find", "verify"}
    /\ resume => previous # 0
    /\ run' = [run EXCEPT ![k] = [NoRun EXCEPT !.at = "find", !.who = who, !.previous = previous,
                 !.review = IF previous = 0 THEN 2 * k ELSE run[previous].review]]
    /\ UNCHANGED <<matched, store, reported>>

\* Later than this an interrupt does no more than a job that fails.
Interrupt(k) ==
    /\ run[k].at \in {"find", "verify"} /\ ~ run[k].interrupted
    /\ run' = [run EXCEPT ![k].interrupted = TRUE]
    /\ UNCHANGED <<matched, store, reported>>

Previous(k) == IF run[k].previous = 0 THEN NoRun ELSE run[run[k].previous]

\* reuseFind: a job that completed is not run again; its finding is to be
\* verified anew, and keeps its problem.
Reusable(k, r) == Previous(k).find[r] = "ok"
Reused(k, r) ==
    LET old == SelectSeq(Previous(k).found, LAMBDA f : f.by = r)
    IN  [i \in DOMAIN old |-> [old[i] EXCEPT !.carried = old[i].id, !.id = 0,
                                             !.verdict = "unverified", !.verifier = 0]]

\* What a reviewer has others verify.
Batch(r, a) == {i \in DOMAIN r.found : r.found[i].by = a}

Verified(r) == IF \A a \in Reviewer : Batch(r, a) # {} => r.verify[a] # NoJob
               THEN [r EXCEPT !.at = "read"] ELSE r

\* verify: with one reviewer, or interrupted, nothing is verified.
Found(r) == IF \E a \in ToSet(r.who) : r.find[a] = "none" THEN r
            ELSE IF Len(r.who) < 2 \/ r.interrupted THEN [r EXCEPT !.at = "read"]
            ELSE Verified([r EXCEPT !.at = "verify"])

\* Reviewers run beside one another, and report as they finish.
Find(k, r) ==
    LET done(status, fs) == run' = [run EXCEPT ![k] =
                              Found([@ EXCEPT !.find[r] = status, !.found = @ \o fs])]
        new(t) == [by |-> r, title |-> t, verdict |-> "unverified", verifier |-> 0, id |-> 0, carried |-> 0]
    IN
    /\ run[k].at = "find" /\ r \in ToSet(run[k].who) /\ run[k].find[r] = "none"
    /\ \/ run[k].interrupted /\ done("failed", <<>>) /\ UNCHANGED reported
       \/ ~ run[k].interrupted /\ Reusable(k, r) /\ done("ok", Reused(k, r)) /\ UNCHANGED reported
       \/ /\ ~ run[k].interrupted /\ ~ Reusable(k, r)
          /\ \/ done("failed", <<>>) /\ UNCHANGED reported
             \/ done("ok", <<>>) /\ UNCHANGED reported
             \/ /\ reported < MaxReported /\ reported' = reported + 1
                /\ \E t \in Title : done("ok", <<new(t)>>)
    /\ UNCHANGED <<matched, store>>


\* The next reviewer checks.
Checker(k, r) ==
    LET who == run[k].who i == CHOOSE j \in DOMAIN who : who[j] = r
    IN  who[(i % Len(who)) + 1]

\* reuseVerify: of the same findings by the same checker.
VerifyReusable(k, r) ==
    Reusable(k, r) /\ Previous(k).verify[r] = [status |-> "ok", by |-> Checker(k, r)]

OldVerdict(k, f) ==
    LET i == CHOOSE j \in DOMAIN Previous(k).found : Previous(k).found[j].by = f.by
    IN  Previous(k).found[i].verdict

Verify(k, r) ==
    LET by == Checker(k, r)
        judged(i, v) == [run[k].found[i] EXCEPT !.verdict = v, !.verifier = by]
        done(status, fs) == run' = [run EXCEPT ![k] =
            Verified([@ EXCEPT !.verify[r] = [status |-> status, by |-> by], !.found = fs])]
    IN
    /\ run[k].at = "verify" /\ Batch(run[k], r) # {} /\ run[k].verify[r] = NoJob
    /\ \/ /\ VerifyReusable(k, r)
          /\ done("ok", [i \in DOMAIN run[k].found |->
                           IF i \in Batch(run[k], r) THEN judged(i, OldVerdict(k, run[k].found[i])) ELSE run[k].found[i]])
       \/ ~ VerifyReusable(k, r) /\ done("failed", run[k].found)
       \/ /\ ~ VerifyReusable(k, r) /\ ~ run[k].interrupted
          /\ \E v \in Verdict \ {"unverified"} :
               done("ok", [i \in DOMAIN run[k].found |-> IF i \in Batch(run[k], r) THEN judged(i, v) ELSE run[k].found[i]])
    /\ UNCHANGED <<matched, store, reported>>

-----------------------------------------------------------------------------
(* Remembering *)

\* remember reads the store and matchByMeaning shows the matcher the problems
\* seen last.  A target is a known problem, an earlier finding of the run
\* (negative) or none; without an answer titles decide.
Match(k) ==
    LET n == Len(run[k].found)
        known == CHOOSE s \in SUBSET DOMAIN store :
                   /\ Cardinality(s) = Min({KnownLimit, Len(store)})
                   /\ \A i \in s, j \in DOMAIN store \ s : store[i].last >= store[j].last
    IN
    /\ run[k].at = "read"
    /\ \/ run' = [run EXCEPT ![k].at = IF n = 0 THEN "write" ELSE "store"] /\ UNCHANGED matched
       \/ /\ ~ run[k].interrupted /\ n > 0 /\ (known # {} \/ n > 1) /\ matched' = TRUE
          /\ \E ts \in [1 .. n -> known \cup {0} \cup {-i : i \in 1 .. n}] :
               /\ \A i \in 1 .. n : ts[i] > -i
               /\ run' = [run EXCEPT ![k].at = "store", ![k].known = known, ![k].answered = TRUE, ![k].targets = ts]
    /\ UNCHANGED <<store, reported>>

\* sight: another report of a problem, of whose reports the best is kept.
Strength == [confirmed |-> 3, unverified |-> 0]
Describes(p, f, review) ==
    IF review = p.describedBy THEN Strength[f.verdict] > Strength[p.verdict]
    ELSE IF review > p.describedBy THEN f.verdict # "unverified" \/ p.verdict = "unverified"
    ELSE p.verdict = "unverified" /\ f.verdict # "unverified"

Sight(p, f, review) ==
    LET d == Describes(p, f, review) IN
    [p EXCEPT !.title = IF d THEN f.title ELSE @, !.verdict = IF d THEN f.verdict ELSE @,
              !.describedBy = IF d THEN review ELSE @, !.reviews = @ \cup {review},
              !.last = Max({@, review}), !.checked = @ \/ f.verdict # "unverified"]

New(f, review) == [title |-> f.title, first |-> review, last |-> review, reviews |-> {review},
                   describedBy |-> review, verdict |-> f.verdict, checked |-> f.verdict # "unverified"]

First(s) == IF s = {} THEN 0 ELSE Min(s)

\* matchGroups: findings the matcher linked, in the report's order.
Root(ts) == LET root[i \in DOMAIN ts] == IF ts[i] < 0 THEN root[-ts[i]] ELSE i IN root
Group(k, i) == LET r == run[k] IN
    IF r.answered THEN {j \in DOMAIN r.found : Root(r.targets)[j] = Root(r.targets)[i]} ELSE {i}

\* place: a is the store as it becomes, with what titles stand for, what is
\* claimed, and the findings' problems so far.
Place(k, a, i, id) ==
    LET f == run[k].found[i] review == run[k].review
        n == IF id = 0 THEN Len(a.store) + 1 ELSE id
    IN  [a EXCEPT !.store = IF id = 0 THEN Append(@, New(f, review)) ELSE [@ EXCEPT ![id] = Sight(@, f, review)],
                  !.ids[i] = n,
                  !.byTitle = IF @[f.title] = 0 /\ ~ run[k].answered THEN [@ EXCEPT ![f.title] = n] ELSE @]

\* A group's problem: one a member keeps, else one the matcher named, else one
\* of a member's title that no other group has.
PlaceGroup(k, a, g) ==
    LET found == run[k].found
        keeps == {i \in g : found[i].carried # 0}
        named == {i \in g : run[k].answered /\ run[k].targets[i] > 0}
        titled == {i \in g : a.byTitle[found[i].title] \notin {0} \cup a.claimed}
        title == IF keeps = {} /\ named = {} /\ titled # {} THEN a.byTitle[found[Min(titled)].title] ELSE 0
        anchor == IF keeps # {} THEN found[Min(keeps)].carried
                  ELSE IF named # {} THEN run[k].targets[Min(named)] ELSE title
        claimed == IF run[k].answered /\ title # 0 THEN a.claimed \cup {title} ELSE a.claimed
        member(b, i) == IF i \in keeps THEN Place(k, b, i, found[i].carried)
                        ELSE LET c == Place(k, b, i, b.anchor) IN [c EXCEPT !.anchor = c.ids[i]]
    IN  FoldLeft(member, [a EXCEPT !.anchor = anchor, !.claimed = claimed], SetToSortSeq(g, <))

Placed(k) ==
    LET found == run[k].found
        unjudged == {i \in DOMAIN store : ~ run[k].answered \/ i \notin run[k].known}
        a == [store |-> store, ids |-> [i \in DOMAIN found |-> 0], anchor |-> 0,
              byTitle |-> [t \in Title |-> First({i \in unjudged : store[i].title = t})],
              claimed |-> IF run[k].answered THEN {f.carried : f \in ToSet(found)} \ {0} ELSE {}]
        groups == SetToSortSeq({Group(k, i) : i \in DOMAIN found}, LAMBDA g, h : Min(g) < Min(h))
    IN  FoldLeft(LAMBDA b, g : PlaceGroup(k, b, g), a, groups)

\* store: under the store's lock, or it fails and no finding gets a number.
Store(k) ==
    /\ run[k].at = "store"
    /\ \/ run' = [run EXCEPT ![k].at = "write"] /\ UNCHANGED store
       \/ LET a == Placed(k) IN
          /\ store' = a.store
          /\ run' = [run EXCEPT ![k].at = "write",
                       ![k].found = [i \in DOMAIN @ |-> [@[i] EXCEPT !.id = a.ids[i]]]]
    /\ UNCHANGED <<matched, reported>>

\* complete: every planned job reviewed, and with more than one reviewer every
\* finding has a verdict.
Complete(r) ==
    /\ ~ r.interrupted
    /\ \A a \in ToSet(r.who) : r.find[a] = "ok" /\ r.verify[a].status # "failed"
    /\ Len(r.who) > 1 => \A f \in ToSet(r.found) : f.verdict # "unverified"

Write(k) ==
    /\ run[k].at = "write"
    /\ run' = [run EXCEPT ![k].at = "done", ![k].complete = Complete(run[k]),
                      ![k].known = {}, ![k].answered = FALSE, ![k].targets = <<>>] \* no longer needed
    /\ UNCHANGED <<matched, store, reported>>

\* A review of another commit, of as much as it reports.
Elsewhere(f) ==
    LET review == 2 * Cardinality({k \in Run : run[k].at # "none"}) + 1
        known == First({i \in DOMAIN store : store[i].title = f.title})
    IN
    /\ \A i \in DOMAIN store : \A v \in store[i].reviews : v % 2 = 0
    /\ store' = IF known = 0 THEN Append(store, New(f, review))
                ELSE [store EXCEPT ![known] = Sight(@, f, review)]
    /\ UNCHANGED <<matched, run, reported>>

Next ==
    \/ \E t \in Title, v \in Verdict : Elsewhere([title |-> t, verdict |-> v])
    \/ \E k \in Run, who \in Selection, resume \in BOOLEAN : Start(k, who, resume)
    \/ \E k \in Run, r \in Reviewer : Find(k, r) \/ Verify(k, r)
    \/ \E k \in Run : Interrupt(k) \/ Match(k) \/ Store(k) \/ Write(k)

Spec == Init /\ [][Next]_vars

-----------------------------------------------------------------------------
(* Properties *)

\* A review that says it is complete had every job, and another reviewer's
\* verdict on every finding if it had two.
CompleteIsReviewed ==
    \A k \in Run : run[k].complete =>
        /\ \A r \in ToSet(run[k].who) : run[k].find[r] = "ok"
        /\ Len(run[k].who) > 1 => \A f \in ToSet(run[k].found) :
             f.verdict # "unverified" /\ f.verifier \in ToSet(run[k].who) \ {f.by}

\* A finding that --resume reuses stays the problem it was, so one report is
\* not counted twice.
ReusedKeepProblem ==
    \A k \in Run : \A f \in ToSet(run[k].found) :
        f.carried # 0 /\ f.id # 0 => f.id = f.carried

\* Findings the matcher told apart do not become one problem by their title:
\* each group of them that has a problem has a member that kept it or that the
\* matcher said repeats it.
ToldApart ==
    \A k \in Run : run[k].answered =>
        \A i, j \in DOMAIN run[k].found :
            run[k].found[i].id = run[k].found[j].id /\ run[k].found[i].id # 0 /\ Group(k, i) # Group(k, j) =>
                \E m \in Group(k, i) : run[k].found[i].id \in {run[k].found[m].carried, run[k].targets[m]}

\* Without a matcher one title is one problem.
OneProblemPerTitle ==
    ~ matched => \A i, j \in DOMAIN store : store[i].title = store[j].title => i = j

\* A problem some review verified does not go back to unverified, whichever
\* review is resumed after it.
VerdictsStay == \A i \in DOMAIN store : store[i].checked => store[i].verdict # "unverified"

ReviewsAreSound ==
    CompleteIsReviewed /\ ReusedKeepProblem /\ ToldApart /\ OneProblemPerTitle /\ VerdictsStay
================================================================================
