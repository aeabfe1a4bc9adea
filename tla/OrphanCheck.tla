------------------------------ MODULE OrphanCheck ------------------------------
(***************************************************************************)
(* forgejo-runner-orphan-check: one scan for containers whose task is over *)
(* at the forge (src/tools/forgejo-runner-orphan-check/main.go).  The scan *)
(* lists the containers, looks their tasks up page by page, waits for a    *)
(* grace, and lists and looks up again, while the runner starts and ends   *)
(* tasks, removes containers, and the forge drops old tasks.               *)
(***************************************************************************)
EXTENDS Integers, FiniteSets, Sequences, SequencesExt, FiniteSetsExt

CONSTANTS MaxTask,       \* task identifiers, in the order of creation
          RepoCount,     \* repositories 1 .. RepoCount, ...
          Configured,    \* ... of which the scan knows 1 .. Configured
          PageSize, MaxPagesPerRepo, MaxRequests

VARIABLES task, scan,
          past  \* what was so at earlier moments of the scan, for the properties

vars == <<task, scan, past>>

Task == 1 .. MaxTask
Repo == 1 .. RepoCount

\* A task: how the forge reports it ("none" before its creation, "gone" once it is
\* dropped, "odd" with a status the scan does not know), and whether its container
\* is up.
Absent == [status |-> "none", repo |-> 1, box |-> FALSE]
Tasks(r) == [status : {"running", "odd"}, repo : {r}, box : {TRUE}]
            \cup [status : {"done"}, repo : {r}, box : BOOLEAN]

Init ==
    /\ \E n \in 0 .. MaxTask :
         task \in {f \in [Task -> {Absent} \cup UNION {Tasks(r) : r \in Repo}] :
                     \A t \in Task : f[t] = Absent <=> t > n}
    /\ scan = [at |-> "list", round |-> 1, initial |-> {}, still |-> {}, found |-> <<>>, repo |-> 1, page |-> 1,
               left |-> MaxRequests, unknown |-> FALSE, reported |-> {}, exit |-> "none"]
    /\ past = [orphans |-> {}, grace |-> {}, held |-> {}]

TypeOK ==
    /\ \A t \in Task : /\ task[t].status \in {"none", "running", "odd", "done", "gone"}
                       /\ task[t].repo \in Repo /\ task[t].box \in BOOLEAN
    /\ scan.at \in {"list", "lookup", "grace", "over"} /\ scan.round \in 1 .. 2
    /\ scan.initial \subseteq Task /\ scan.still \subseteq scan.initial /\ scan.reported \subseteq scan.still
    /\ scan.repo \in 1 .. Configured + 1 /\ scan.page \in 1 .. MaxPagesPerRepo
    /\ scan.left \in 0 .. MaxRequests
    /\ scan.exit \in {"none", "ok", "orphans", "unknown"} /\ (scan.at = "over" <=> scan.exit # "none")

-----------------------------------------------------------------------------
(* The scan *)

Exit(s, code) == [s EXCEPT !.at = "over", !.exit = code]
Clean(s) == Exit(s, IF s.unknown THEN "unknown" ELSE "ok")
Up == {t \in Task : task[t].box}
Ended == {t \in Task : task[t].status \in {"done", "gone"}}

\* A listing, a request or the reading of the token may fail, or the time be up.
Fail == scan.at # "over" /\ scan' = Exit(scan, "unknown") /\ UNCHANGED <<task, past>>

List ==
    /\ scan.at = "list"
    /\ scan' = IF Up = {} THEN Exit(scan, "ok") ELSE [scan EXCEPT !.at = "lookup", !.initial = Up]
    /\ past' = [past EXCEPT !.orphans = Ended \cap Up]
    /\ UNCHANGED task

Wanted == IF scan.round = 1 THEN scan.initial ELSE scan.still
Unresolved(found) == Wanted \ DOMAIN found
LookedUp == Unresolved(scan.found) = {} \/ scan.repo > Configured

\* The forge lists a repository's tasks newest first.
Page ==
    LET listed == {t \in Task : task[t].repo = scan.repo /\ task[t].status \notin {"none", "gone"}}
        newest == SetToSortSeq(listed, LAMBDA a, b : a > b)
        start == (scan.page - 1) * PageSize
    IN SubSeq(newest, start + 1, IF Len(newest) < start + PageSize THEN Len(newest) ELSE start + PageSize)

consumeTaskPage(page) ==
    [t \in DOMAIN scan.found \cup (Wanted \cap ToSet(page)) |->
        IF t \in ToSet(page) THEN task[t].status ELSE scan.found[t]]

\* The rest of a repository is not read once a page went past what is missing.
LastPage(page, unresolved) ==
    \/ unresolved = {} \/ Len(page) < PageSize
    \/ Last(page) < Min(unresolved)

lookup ==
    LET found == consumeTaskPage(Page)
        over == LastPage(Page, Unresolved(found)) \/ scan.page = MaxPagesPerRepo
    IN
    /\ scan.at = "lookup" /\ ~ LookedUp
    /\ scan' = IF scan.left = 0 THEN Exit(scan, "unknown")
               ELSE [scan EXCEPT !.left = @ - 1, !.found = found,
                                 !.repo = IF over THEN @ + 1 ELSE @,
                                 !.page = IF over THEN 1 ELSE @ + 1]
    /\ UNCHANGED <<task, past>>

Terminal == {t \in DOMAIN scan.found : scan.found[t] = "done"}
Recognized == {t \in DOMAIN scan.found : scan.found[t] # "odd"}

\* After the first lookup: what may be an orphan is looked at again after a grace.
Suspect ==
    LET s == [scan EXCEPT !.unknown = ~ Wanted \subseteq Recognized] IN
    /\ scan.at = "lookup" /\ scan.round = 1 /\ LookedUp
    /\ scan' = IF Terminal = {} THEN Clean(s) ELSE [s EXCEPT !.at = "grace"]
    /\ past' = [past EXCEPT !.grace = Ended]
    /\ UNCHANGED task

\* Only a container that was there before and whose task had ended is confirmed.
intersectContainers == scan.initial \cap Up \cap Terminal
Relist ==
    LET s == [scan EXCEPT !.still = intersectContainers] IN
    /\ scan.at = "grace"
    /\ scan' = IF s.still = {} THEN Clean(s)
               ELSE [s EXCEPT !.at = "lookup", !.round = 2, !.found = <<>>, !.repo = 1, !.page = 1]
    /\ past' = [past EXCEPT !.held = Up]
    /\ UNCHANGED task

Confirm ==
    LET s == [scan EXCEPT !.reported = scan.still \cap Terminal, !.unknown = @ \/ ~ scan.still \subseteq Terminal] IN
    /\ scan.at = "lookup" /\ scan.round = 2 /\ LookedUp
    /\ scan' = IF ~ s.unknown /\ s.reported # {} THEN Exit(s, "orphans") ELSE Clean(s)
    /\ UNCHANGED <<task, past>>

-----------------------------------------------------------------------------
(* The runner and the forge, while the scan is at work *)

World(t, new) == scan.at # "over" /\ task' = [task EXCEPT ![t] = new] /\ UNCHANGED <<scan, past>>

Begin(t, r) ==
    /\ task[t].status = "none" /\ (t > 1 => task[t - 1].status # "none")
    /\ World(t, [status |-> "running", repo |-> r, box |-> TRUE])
End(t) == task[t].status = "running" /\ World(t, [task[t] EXCEPT !.status = "done"])
TakeDown(t) == task[t].box /\ World(t, [task[t] EXCEPT !.box = FALSE])
Drop(t) == task[t].status = "done" /\ World(t, [task[t] EXCEPT !.status = "gone"])

Next ==
    \/ Fail \/ List \/ lookup \/ Suspect \/ Relist \/ Confirm
    \/ \E t \in Task : End(t) \/ TakeDown(t) \/ Drop(t) \/ \E r \in Repo : Begin(t, r)

Spec == Init /\ [][Next]_vars

-----------------------------------------------------------------------------
(* Properties *)

\* A container that is named had been up at both listings, and its task had ended
\* before the grace: none whose task ended just now is named.
NamedIsOrphan == scan.reported \subseteq past.grace \cap past.held \cap scan.initial

\* A scan that says what it found left none out: a container that was up with its
\* task over when the scan began, and still is, is named.
NoneLeftOut ==
    scan.exit \in {"ok", "orphans"} =>
        \A t \in past.orphans : task[t].box => t \in scan.reported

ScanIsRight == NamedIsOrphan /\ NoneLeftOut
================================================================================
