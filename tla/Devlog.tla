--------------------------------- MODULE Devlog ---------------------------------
(***************************************************************************)
(* `devlog daily', `catch-up' and `weekly' (src/tools/devlog): entries are *)
(* written into a journal checkout from what two forges list of a day,     *)
(* committed and pushed.  One devlog runs at a time in a checkout; a       *)
(* person edits in it, and elsewhere, meanwhile, and sees to a checkout    *)
(* devlog refuses once devlog has ended.  Forges, the model and git may    *)
(* fail; a run is killed, or a file of its own cannot be written or        *)
(* committed, at most MaxFaults times.  A summary edited elsewhere keeps   *)
(* its marks.                                                              *)
(***************************************************************************)
EXTENDS Integers, FiniteSets

CONSTANTS Commit, WeekLength, Lookback,
          MaxDay, MaxFaults \* bounds

VARIABLES
    today,   \* the last complete day
    forgejo, \* by day, the commits of that day's pushes
    github,  \* by commit, its day once GitHub shows it, else 0
    entry,   \* the daily files
    weekly,  \* the weekly files ...
    saved,   \* ... and as last committed
    git,     \* the checkout
    proc,    \* the run
    left,    \* files a run could not commit, or was killed before it did
    faults

vars == <<today, forgejo, github, entry, weekly, saved, git, proc, left, faults>>

Day == 1 .. MaxDay
WeekOf(d) == (d - 1) \div WeekLength + 1
Week == {WeekOf(d) : d \in Day}
DaysOf(w) == {d \in Day : WeekOf(d) = w}

Daily == {<<"devlog", d>> : d \in Day}
Weekly == {<<"weekly", w>> : w \in Week}
Note == <<"note", 0>> \* stands for the rest of the journal
Path == Daily \cup Weekly \cup {Note}

NoEntry == [is |-> "none", reports |-> {}, recorded |-> {}, listed |-> {}, before |-> {}]
NoSummary == [is |-> "none", days |-> {}]
Entry == [is : {"none", "quiet", "active"}, reports : SUBSET Commit, recorded : SUBSET Commit,
          listed : SUBSET Commit, before : SUBSET Day] \* what the forges listed, and the entries there were
Summary == [is : {"none", "quiet", "active"}, days : SUBSET Day]
Idle == [at |-> "idle", kind |-> "none", from |-> 1, to |-> 0, day |-> 1, force |-> FALSE,
         last |-> FALSE, failed |-> FALSE, changed |-> {}, weeks |-> {}, week |-> 0,
         new |-> NoEntry, through |-> 0]

Init ==
    /\ today = 0 /\ faults = 0
    /\ forgejo = [d \in Day |-> {}] /\ github = [c \in Commit |-> 0]
    /\ entry = [d \in Day |-> NoEntry]
    /\ weekly = [w \in Week |-> NoSummary] /\ saved = weekly
    /\ git = [tree |-> [p \in Path |-> IF p = Note THEN "clean" ELSE "none"],
              pending |-> {}, behind |-> {}, rebase |-> FALSE, edited |-> FALSE]
    /\ proc = Idle /\ left = {}

TypeOK ==
    /\ today \in 0 .. MaxDay /\ faults \in 0 .. MaxFaults
    /\ forgejo \in [Day -> SUBSET Commit] /\ github \in [Commit -> 0 .. MaxDay]
    /\ entry \in [Day -> Entry] /\ weekly \in [Week -> Summary] /\ saved \in [Week -> Summary]
    /\ git.tree \in [Path -> {"none", "untracked", "changed", "clean"}]
    /\ git.pending \subseteq Path /\ git.behind \subseteq Path
    /\ left \subseteq Path /\ proc.changed \subseteq Path /\ proc.weeks \subseteq Week

-----------------------------------------------------------------------------
(* A run *)

Goto(p) == proc' = [proc EXCEPT !.at = p]
Exit == proc' = Idle
\* A catch-up that got here without a failure says it is done.
Finish == proc' = IF proc.kind = "catch-up" /\ ~ proc.failed
                  THEN [Idle EXCEPT !.at = "done", !.from = proc.from, !.to = proc.to, !.through = proc.through]
                  ELSE Idle
Fault == faults < MaxFaults /\ faults' = faults + 1
Journal == <<entry, weekly, saved>>
Others == <<today, forgejo, github>>

\* Files in the checkout that are not committed as they are, devlog's own.
Loose == {p \in Path \ {Note} : git.tree[p] \in {"untracked", "changed"}}

Run(r) ==
    /\ proc.at \in {"idle", "done"}
    /\ proc' = [r EXCEPT !.at = "sync"]
    /\ UNCHANGED <<Others, Journal, git, left, faults>>

runDaily(d) == d <= today /\ Run([Idle EXCEPT !.kind = "daily", !.from = d, !.to = d, !.day = d])
runCatchUp(start, end) ==
    /\ start <= end /\ end <= today
    /\ Run([Idle EXCEPT !.kind = "catch-up", !.from = start, !.to = end, !.day = start])
runWeekly(w, force) == Run([Idle EXCEPT !.kind = "weekly", !.weeks = {w}, !.force = force])

\* gitSync: a rebase in progress or a change to a tracked file refuses, ...
checkClean ==
    /\ proc.at = "sync"
    /\ IF git.rebase \/ \E p \in Path : git.tree[p] = "changed" THEN Exit ELSE Goto("pull")
    /\ UNCHANGED <<Others, Journal, git, left, faults>>

Synced == IF proc.last THEN Finish ELSE Goto(IF proc.kind = "weekly" THEN "week" ELSE "day")

\* ... the pull stashes nothing and aborts a rebase that conflicts, ...
Pull ==
    /\ proc.at = "pull"
    /\ \/ Exit /\ UNCHANGED git
       \/ /\ \A p \in Path : git.tree[p] # "changed"
          /\ git.behind \cap git.pending = {}
          /\ git' = [git EXCEPT !.behind = {}]
          /\ IF git.pending = {} THEN Synced ELSE Goto("push")
    /\ UNCHANGED <<Others, Journal, left, faults>>

\* ... and what is ahead is pushed.
Push ==
    /\ proc.at = "push"
    /\ \/ Exit /\ UNCHANGED git
       \/ git.behind = {} /\ git' = [git EXCEPT !.pending = {}] /\ Synced
    /\ UNCHANGED <<Others, Journal, left, faults>>

\* What the forges list of a day: Forgejo its pushes, ...
summarizeForgejoEvents(d) == forgejo[d]
\* ... GitHub by committer date.
fetchCommitData(d) == {c \in Commit : github[c] = d}
Listed(d) == summarizeForgejoEvents(d) \cup fetchCommitData(d)

\* Pull requests and issues make a day active, too.
Activity(fresh) == IF fresh = {} THEN {"quiet", "active"} ELSE {"active"}

reportedCommits(d) == UNION {entry[e].recorded : e \in {f \in Day \ {d} : f >= d - Lookback}}

\* A day that fails ends a catch-up's days, and a daily run.
DayFails(p) == IF p.kind = "daily" THEN Idle ELSE [p EXCEPT !.failed = TRUE, !.at = "weeks", !.new = NoEntry]

\* generateDaily reads the forges and the entries; an error writes nothing.
Fetch ==
    /\ proc.at = "day" /\ proc.day <= proc.to
    /\ IF entry[proc.day].is # "none"
       THEN IF proc.kind = "daily" THEN Exit ELSE proc' = [proc EXCEPT !.day = @ + 1]
       ELSE \/ proc' = DayFails(proc)
            \/ LET fresh == Listed(proc.day) \ reportedCommits(proc.day) IN
               \E is \in Activity(fresh) :
                   proc' = [proc EXCEPT !.at = "write", !.new =
                     [is |-> is, reports |-> fresh, recorded |-> {}, listed |-> Listed(proc.day),
                      before |-> IF fresh = {} THEN {} ELSE {d \in Day : entry[d].is # "none"}]]
    /\ UNCHANGED <<Others, Journal, git, left, faults>>

Generated(p) == [p EXCEPT !.at = IF p.kind = "daily" THEN "add" ELSE "day", !.day = @ + 1, !.new = NoEntry,
                          !.changed = @ \cup {<<"devlog", p.day>>}, !.weeks = @ \cup {WeekOf(p.day)}]

\* The diffs and the model may fail; what is written is not tracked yet.
WriteEntry ==
    /\ proc.at = "write"
    /\ \/ proc' = DayFails(proc) /\ UNCHANGED <<entry, git>>
       \/ /\ entry' = [entry EXCEPT ![proc.day] = proc.new]
          /\ git' = [git EXCEPT !.tree[<<"devlog", proc.day>>] = "untracked"]
          /\ IF proc.new.reports = {} THEN proc' = Generated(proc) ELSE Goto("record")
    /\ UNCHANGED <<Others, weekly, saved, left, faults>>

\* A file cut short reports nothing.
Torn(d) == [entry EXCEPT ![d] = [@ EXCEPT !.reports = {}, !.listed = {}]]

appendReported ==
    /\ proc.at = "record"
    /\ \/ /\ entry' = [entry EXCEPT ![proc.day].recorded = proc.new.reports]
          /\ proc' = Generated(proc) /\ UNCHANGED <<left, faults>>
       \/ /\ Fault
          /\ entry' \in {entry, Torn(proc.day)}
          /\ proc' = DayFails(proc)
          /\ left' = left \cup {<<"devlog", proc.day>>}
    /\ UNCHANGED <<Others, weekly, saved, git>>

\* Quiet entries do not count: a quiet week has a summary without them.
weeklyMissesDaily(w) ==
    \E d \in DaysOf(w) : entry[d].is = "active" /\ d \notin weekly[w].days

weekIsComplete(w) == w * WeekLength <= today

\* runCatchUp: the weeks its entries are of, and those that miss an entry.
Affected ==
    /\ \/ proc.at = "weeks"
       \/ proc.at = "day" /\ proc.day > proc.to
    /\ LET missing == {w \in WeekOf(proc.from) .. WeekOf(proc.to) : weeklyMissesDaily(w)}
       IN  proc' = [proc EXCEPT !.at = "week", !.through = today, !.day = 1,
                     !.weeks = {w \in @ \cup missing : weekIsComplete(w)}]
    /\ UNCHANGED <<Others, Journal, git, left, faults>>

Refreshed(p, w) == [p EXCEPT !.at = "week", !.week = 0, !.weeks = @ \ {w}, !.changed = @ \cup {<<"weekly", w>>}]
WeekFails(p, w) == IF p.kind = "weekly" THEN Idle
                   ELSE [p EXCEPT !.at = "week", !.week = 0, !.weeks = @ \ {w}, !.failed = TRUE]

\* A file written is what git has of it, a change of it, or new.
Tree(p, same) == CASE same -> git.tree [] git.tree[p] = "clean" -> [git.tree EXCEPT ![p] = "changed"]
                   [] git.tree[p] = "none" -> [git.tree EXCEPT ![p] = "untracked"] [] OTHER -> git.tree

\* generateWeekly writes the model's summary, or a note that the week is quiet, ...
Summarize(w) ==
    LET days == {d \in DaysOf(w) : entry[d].is # "none"}
        quiet == [is |-> "quiet", days |-> {}]
    IN
    /\ proc.at = "week" /\ w \in proc.weeks
    /\ IF days = {} \/ (proc.kind = "weekly" /\ ~ proc.force /\ weekly[w].is # "none")
       THEN /\ proc' = [proc EXCEPT !.weeks = @ \ {w}] /\ UNCHANGED <<weekly, git>>
       ELSE IF \A d \in days : entry[d].is = "quiet"
       THEN /\ weekly' = [weekly EXCEPT ![w] = quiet]
            /\ git' = [git EXCEPT !.tree = Tree(<<"weekly", w>>, saved[w] = quiet)]
            /\ proc' = Refreshed(proc, w)
       ELSE \/ proc' = WeekFails(proc, w) /\ UNCHANGED <<weekly, git>>
            \/ /\ weekly' = [weekly EXCEPT ![w] = [is |-> "active", days |-> {}]]
               /\ git' = [git EXCEPT !.tree = Tree(<<"weekly", w>>, FALSE)]
               /\ proc' = [proc EXCEPT !.at = "stitch", !.week = w]
    /\ UNCHANGED <<Others, entry, saved, left, faults>>

\* ... and appends the entries below.
Stitch ==
    LET w == proc.week IN
    /\ proc.at = "stitch"
    /\ \/ /\ weekly' = [weekly EXCEPT ![w].days = {d \in DaysOf(w) : entry[d].is # "none"}]
          /\ proc' = Refreshed(proc, w) /\ UNCHANGED <<left, faults>>
       \/ /\ Fault
          /\ proc' = WeekFails(proc, w)
          /\ left' = left \cup {<<"weekly", w>>} /\ UNCHANGED weekly
    /\ UNCHANGED <<Others, entry, saved, git>>

\* A failure still commits what was written: the next run skips it as existing.
WeeksDone ==
    /\ proc.at = "week" /\ proc.weeks = {}
    /\ IF proc.changed = {} THEN Finish ELSE Goto("add")
    /\ UNCHANGED <<Others, Journal, git, left, faults>>

\* gitCommitAndPushMany: its own paths only, and nothing if none changed.
Add ==
    /\ proc.at = "add"
    /\ \/ /\ git' = [git EXCEPT !.tree = [p \in Path |->
                       IF p \in proc.changed /\ git.tree[p] = "untracked" THEN "changed" ELSE git.tree[p]]]
          /\ Goto("commit") /\ UNCHANGED <<left, faults>>
       \/ Fault /\ Exit /\ left' = left \cup proc.changed /\ UNCHANGED git
    /\ UNCHANGED <<Others, Journal>>

Committed(paths) ==
    /\ git' = [git EXCEPT !.tree = [p \in Path |-> IF p \in paths THEN "clean" ELSE git.tree[p]],
                          !.pending = @ \cup paths]
    /\ saved' = [w \in Week |-> IF <<"weekly", w>> \in paths THEN weekly[w] ELSE saved[w]]

CommitOnly ==
    LET paths == {p \in proc.changed : git.tree[p] = "changed"} IN
    /\ proc.at = "commit"
    /\ \/ /\ paths = {} /\ UNCHANGED <<git, saved, left, faults>>
          /\ IF proc.failed THEN Exit ELSE Goto("done")
       \/ /\ paths # {} /\ Committed(paths) /\ UNCHANGED <<left, faults>>
          /\ proc' = [proc EXCEPT !.at = "sync", !.last = TRUE, !.changed = {}]
       \/ paths # {} /\ Fault /\ Exit /\ left' = left \cup paths /\ UNCHANGED <<git, saved>>
    /\ UNCHANGED <<Others, entry, weekly>>

\* A kill leaves every file as it is, a rebase as far as it came, and an entry
\* that was being rewritten possibly cut short.
Kill ==
    /\ proc.at \notin {"idle", "done"} /\ Fault /\ Exit
    /\ IF proc.at = "record" THEN entry' \in {entry, Torn(proc.day)} ELSE UNCHANGED entry
    /\ \E r \in {git.rebase, git.rebase \/ (proc.at = "pull" /\ git.behind # {} /\ git.pending # {})} :
         git' = [git EXCEPT !.rebase = r]
    /\ left' = left \cup Loose
    /\ UNCHANGED <<Others, weekly, saved>>

-----------------------------------------------------------------------------
(* The forges, and the person *)

\* A day ends: what was pushed to Forgejo on it, and what GitHub shows by then,
\* of any day up to it, is known; a commit may be pushed again.
Tick ==
    /\ today < MaxDay /\ today' = today + 1
    /\ \E cs \in SUBSET Commit : forgejo' = [forgejo EXCEPT ![today'] = cs]
    /\ github' \in {g \in [Commit -> 0 .. today'] : \A c \in Commit : github[c] # 0 => g[c] = github[c]}
    /\ UNCHANGED <<Journal, git, proc, left, faults>>

\* edited: the checkout has a change of the person's.
Edit ==
    /\ git.tree[Note] = "clean"
    /\ git' = [git EXCEPT !.tree[Note] = "changed", !.edited = TRUE]
    /\ UNCHANGED <<Others, Journal, proc, left, faults>>

EditElsewhere(p) ==
    /\ p \notin git.behind /\ git.tree[p] \in {"clean", "changed"} /\ saved[p[2]].is # "none"
    /\ git' = [git EXCEPT !.behind = @ \cup {p}]
    /\ UNCHANGED <<Others, Journal, proc, left, faults>>

Attended == proc.at \in {"idle", "done"}

\* The person commits what git knows of, ...
CommitAll ==
    LET paths == {p \in Path : git.tree[p] = "changed"} IN
    /\ Attended /\ paths # {}
    /\ git' = [git EXCEPT !.tree = [p \in Path |-> IF p \in paths THEN "clean" ELSE git.tree[p]],
                          !.pending = @ \cup paths, !.edited = FALSE]
    /\ saved' = [w \in Week |-> IF <<"weekly", w>> \in paths THEN weekly[w] ELSE saved[w]]
    /\ left' = left \ paths
    /\ Exit /\ UNCHANGED <<Others, entry, weekly, faults>>

\* ... or throws it away, ...
Discard ==
    LET paths == {p \in Path : git.tree[p] = "changed"}
        known(p) == p = Note \/ (p \in Weekly /\ saved[p[2]].is # "none")
    IN
    /\ Attended /\ paths # {}
    /\ git' = [git EXCEPT !.tree = [p \in Path |-> IF p \notin paths THEN git.tree[p]
                                                   ELSE IF known(p) THEN "clean" ELSE "none"],
                          !.edited = FALSE]
    /\ entry' = [d \in Day |-> IF <<"devlog", d>> \in paths THEN NoEntry ELSE entry[d]]
    /\ weekly' = [w \in Week |-> IF <<"weekly", w>> \in paths THEN saved[w] ELSE weekly[w]]
    /\ left' = left \ paths
    /\ Exit /\ UNCHANGED <<Others, saved, faults>>

\* ... and ends a rebase, or merges what conflicts.
Settle ==
    /\ Attended /\ (git.rebase \/ git.behind \cap git.pending # {})
    /\ git' = [git EXCEPT !.rebase = FALSE, !.behind = {}]
    /\ Exit /\ UNCHANGED <<Others, Journal, left, faults>>

Next ==
    \/ \E d \in Day : runDaily(d)
    \/ \E s, e \in Day : runCatchUp(s, e)
    \/ \E w \in Week, f \in BOOLEAN : runWeekly(w, f)
    \/ checkClean \/ Pull \/ Push \/ Fetch \/ WriteEntry \/ appendReported
    \/ Affected \/ Stitch \/ WeeksDone \/ Add \/ CommitOnly \/ Kill
    \/ \E w \in Week : Summarize(w)
    \/ \E p \in Weekly : EditElsewhere(p)
    \/ Tick \/ Edit \/ CommitAll \/ Discard \/ Settle

Spec == Init /\ [][Next]_vars

-----------------------------------------------------------------------------
(* Properties *)

\* An entry repeats nothing that an entry written before it has on record,
\* unless that one is older than the lookback.
ReportedOnce ==
    \A d \in Day : \A e \in entry[d].before :
        e >= d - Lookback /\ entry[e].is # "none" =>
            entry[d].reports \cap entry[e].recorded = {}

\* What the forges listed for an entry when it was written is reported by some
\* entry, or by one still to be written: what is left out as reported
\* elsewhere is there.
NothingMissed ==
    \A d \in Day : \A c \in entry[d].listed :
        \E e \in Day : c \in entry[e].reports \/ (entry[e].is = "none" /\ c \in Listed(e))

\* A run that ends leaves no file it wrote uncommitted, but those it could not
\* commit or was killed over.
WrittenIsCommitted == proc.at \in {"idle", "done"} => Loose \subseteq left

\* A catch-up that says it is done has every entry of its range, and every
\* summary of its complete weeks with the entries' text, at the remote.
CatchUpComplete ==
    proc.at = "done" =>
        /\ \A d \in proc.from .. proc.to :
             /\ entry[d].is # "none"
             /\ <<"devlog", d>> \notin git.pending
        /\ \A w \in WeekOf(proc.from) .. WeekOf(proc.to) :
             w * WeekLength <= proc.through =>
                ~ weeklyMissesDaily(w) /\ <<"weekly", w>> \notin git.pending

\* What a person has not committed is neither committed nor stashed by a run.
EditsAreLeft == git.edited => git.tree[Note] = "changed"

JournalIsSound ==
    ReportedOnce /\ NothingMissed /\ WrittenIsCommitted /\ CatchUpComplete /\ EditsAreLeft
================================================================================
