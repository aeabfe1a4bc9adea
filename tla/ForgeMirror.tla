------------------------------ MODULE ForgeMirror ------------------------------
(***************************************************************************)
(* forge-mirror (src/tools/forge-mirror/main.go) and one repository: at    *)
(* GitHub, at Forgejo, and a checkout's remotes.  The commands work        *)
(* through their repositories one by one and go on after a failure, so one *)
(* repository stands for all.  A request or a git command takes effect or  *)
(* not, and may be reported failed either way; a killed command stops      *)
(* between two of them.  The timers run sync, primary and pull beside what *)
(* an operator does.                                                       *)
(*                                                                         *)
(* A history is its set of commits; a push without force needs the other   *)
(* side's to be a part of it.  An operator runs create, convert, recreate  *)
(* and mirror-github one at a time.  mirror-github without names takes in  *)
(* the pull mirrors too, and Forgejo is taken to set a push mirror on one  *)
(* of them when it is asked to.  A repository that is denied a mirror only *)
(* never gets one, and is left out.                                        *)
(***************************************************************************)
EXTENDS Integers, FiniteSets

CONSTANTS Process, MaxCommit, MaxFaults \* the last two are bounds

VARIABLES
    primary, \* whether the repository is GitHub-primary
    github,  \* its commits at GitHub
    forgejo, \* its kind at Forgejo, its commits, whether it is pushed to GitHub
    remotes, \* the checkout's: origin, github, and origin's push URLs, and
             \* where it was cloned from
    proc, acked, commits, faults,
    overwritten \* the commits that a push mirror of a pull mirror's took from GitHub

vars == <<primary, github, forgejo, remotes, proc, acked, commits, faults, overwritten>>

None == "none"

Parameters == MaxCommit \in Nat

\* The addresses: GitHub's, and Forgejo's by SSH and by HTTPS.
Address == {"gh", "ssh", "https"}
AtForgejo == {"ssh", "https"}
Idle == [at |-> "idle", cmd |-> None, kind |-> None, push |-> {}, clone |-> {}]
Gone == [kind |-> None, commits |-> {}, mirrored |-> FALSE]

Timed == {"sync", "primary", "pull"}
Rebuilding == {"create", "convert", "recreate"}
Mirroring == {"mirror", "refresh"}  \* mirror-github [--refresh-existing]

Init ==
    /\ primary \in BOOLEAN
    /\ github = {} /\ acked = {} /\ commits = 0 /\ faults = 0 /\ overwritten = {}
    /\ forgejo \in {[Gone EXCEPT !.kind = k] : k \in {None, "mirror", "regular"}}
    /\ remotes \in {[from |-> o, origin |-> o, github |-> None, push |-> {}] : o \in {"gh", "ssh"}}
    /\ proc = [p \in Process |-> Idle]

\* A pull mirror and what is GitHub-primary are GitHub's, everything else that
\* Forgejo has is Forgejo's.
Canonical == IF primary \/ forgejo.kind # "regular" THEN "gh" ELSE "ssh"

-----------------------------------------------------------------------------
(* The forges and the developer *)

PullMirrorSync ==
    /\ forgejo.kind = "mirror" /\ forgejo' = [forgejo EXCEPT !.commits = github]
    /\ UNCHANGED <<primary, github, remotes, proc, acked, commits, faults, overwritten>>
\* A push mirror overwrites what GitHub has, a pull mirror's with older history.
PushMirrorSync ==
    /\ forgejo.mirrored /\ github' = forgejo.commits
    /\ overwritten' = IF forgejo.kind = "mirror" THEN overwritten \cup (github \ forgejo.commits)
                      ELSE overwritten
    /\ UNCHANGED <<primary, forgejo, remotes, proc, acked, commits, faults>>

History(address) == IF address = "gh" THEN github ELSE forgejo.commits
Takes(address, new) ==
    /\ History(address) \subseteq new
    /\ address \in AtForgejo => forgejo.kind = "regular"

\* A developer adds a commit to what origin has and pushes; to whom a push URL
\* refuses it, git reports the failure.
Commit ==
    LET new == History(remotes.origin) \cup {commits + 1}
        to == IF remotes.push = {} THEN {remotes.origin} ELSE remotes.push
        reached == {a \in to : Takes(a, new)}
        canonical == IF Canonical = "gh" THEN {"gh"} ELSE AtForgejo
    IN
    /\ commits < MaxCommit /\ commits' = commits + 1
    /\ github' = IF "gh" \in reached THEN new ELSE github
    /\ forgejo' = IF reached \cap AtForgejo # {} THEN [forgejo EXCEPT !.commits = new] ELSE forgejo
    /\ acked' = IF reached \cap canonical # {} THEN acked \cup {commits + 1} ELSE acked
    /\ UNCHANGED <<primary, remotes, proc, faults, overwritten>>

-----------------------------------------------------------------------------
(* The commands *)

\* The last step of a command ends it; what it read is for one step.
Goto(p, at) ==
    proc' = [proc EXCEPT ![p] = IF at = "done" THEN Idle ELSE [Idle EXCEPT !.at = at, !.cmd = proc[p].cmd]]
End(p) == proc' = [proc EXCEPT ![p] = Idle]
At(p, cmd, at) == proc[p].cmd = cmd /\ proc[p].at = at

\* Every command begins with Forgejo's list of repositories.
Begin(p, cmd) ==
    /\ proc[p] = Idle
    /\ cmd \notin Timed => \A q \in Process : proc[q].cmd \in Timed \cup {None}
    /\ proc' = [proc EXCEPT ![p] = [Idle EXCEPT !.at = "listed", !.cmd = cmd, !.kind = forgejo.kind]]
    /\ UNCHANGED <<primary, github, forgejo, remotes, acked, commits, faults, overwritten>>

Die(p) ==
    /\ proc[p] # Idle /\ faults < MaxFaults /\ faults' = faults + 1
    /\ End(p)
    /\ UNCHANGED <<primary, github, forgejo, remotes, acked, commits, overwritten>>

\* A change is made, and the command goes on or takes it for failed, or is not.
Reported(p, at) == \/ Goto(p, at) /\ UNCHANGED faults
                   \/ faults < MaxFaults /\ faults' = faults + 1 /\ End(p)
Refused(p) == faults < MaxFaults /\ faults' = faults + 1 /\ End(p)
ChangeRemotes(p, new, at) ==
    /\ \/ remotes' = new /\ Reported(p, at)
       \/ UNCHANGED remotes /\ Refused(p)
    /\ UNCHANGED <<primary, github, forgejo, acked, commits, overwritten>>
ChangeForgejo(p, new, at) ==
    /\ \/ forgejo' = new /\ Reported(p, at)
       \/ UNCHANGED forgejo /\ Refused(p)
    /\ UNCHANGED <<primary, github, remotes, commits, overwritten>>
Only(step) == step /\ UNCHANGED <<primary, github, forgejo, remotes, acked, commits, faults, overwritten>>

\* sync: cmdSync and ensurePushURL.
SyncRead(p) ==
    /\ At(p, "sync", "listed")
    /\ Only(IF primary \/ proc[p].kind # "regular" THEN End(p)
            ELSE proc' = [proc EXCEPT ![p].push = remotes.push, ![p].kind = None,
                              ![p].at = IF "ssh" \in remotes.push THEN "unset" ELSE "check"])
SyncUnset(p) == At(p, "sync", "unset") /\ ChangeRemotes(p, [remotes EXCEPT !.push = @ \ {"ssh"}], "reread")
SyncReread(p) ==
    /\ At(p, "sync", "reread")
    /\ Only(proc' = [proc EXCEPT ![p].push = remotes.push, ![p].at = "check"])
SyncCheck(p) ==
    /\ At(p, "sync", "check")
    /\ Only(IF "https" \in proc[p].push THEN End(p)
            ELSE Goto(p, IF proc[p].push = {} THEN "own" ELSE "add"))
SyncOwn(p) == At(p, "sync", "own") /\ ChangeRemotes(p, [remotes EXCEPT !.push = @ \cup {remotes.origin}], "add")
SyncAdd(p) == At(p, "sync", "add") /\ ChangeRemotes(p, [remotes EXCEPT !.push = @ \cup {"https"}], "done")

\* primary: ensureForgejoPrimary records a GitHub origin before it replaces it,
\* restoreMirrorSourceOrigin undoes that for a pull mirror.
PrimaryFirst(kind) ==
    IF kind = "mirror" THEN "unpush" ELSE IF remotes.origin = "gh" THEN "record" ELSE "origin"
PrimaryRead(p) ==
    /\ At(p, "primary", "listed")
    /\ Only(IF proc[p].kind = None \/ (primary /\ proc[p].kind # "mirror") THEN End(p)
            ELSE Goto(p, PrimaryFirst(proc[p].kind)))
PrimaryRecord(p) == At(p, "primary", "record") /\ ChangeRemotes(p, [remotes EXCEPT !.github = "gh"], "origin")
PrimaryOrigin(p) == At(p, "primary", "origin") /\ ChangeRemotes(p, [remotes EXCEPT !.origin = "ssh"], "clear")
PrimaryClear(p) == At(p, "primary", "clear") /\ ChangeRemotes(p, [remotes EXCEPT !.push = {}], "done")
\* A push URL that stays is reported at the end.
PrimaryUnpush(p) ==
    /\ At(p, "primary", "unpush")
    /\ Goto(p, IF remotes.origin \in AtForgejo THEN "restore" ELSE "done")
    /\ \/ remotes' = [remotes EXCEPT !.push = @ \ AtForgejo] /\ UNCHANGED faults
       \/ UNCHANGED remotes /\ faults < MaxFaults /\ faults' = faults + 1
    /\ UNCHANGED <<primary, github, forgejo, acked, commits, overwritten>>
PrimaryRestore(p) == At(p, "primary", "restore") /\ ChangeRemotes(p, [remotes EXCEPT !.origin = "gh"], "done")

\* create; Forgejo refuses a migration to a name it has.
Create(p) ==
    /\ At(p, "create", "listed")
    /\ IF forgejo.kind # None THEN Only(End(p))
       ELSE ChangeForgejo(p, [Gone EXCEPT !.kind = "mirror", !.commits = github], "done") /\ UNCHANGED acked

\* Mutant: convert takes any repository.
ConvertAny(kind) == kind # None

\* convert and recreate: of what was listed, convert takes the pull mirrors.
Converted(kind) == kind = "mirror"
Choose(p) ==
    /\ proc[p].at = "listed" /\ proc[p].cmd \in {"convert", "recreate"}
    /\ Only(IF primary \/ (proc[p].cmd = "convert" /\ ~ Converted(proc[p].kind)) THEN End(p)
            ELSE Goto(p, IF proc[p].kind = None THEN "migrate" ELSE "delete"))

\* Who asks for recreate gives up what only Forgejo has.
Delete(p) ==
    /\ proc[p].at = "delete"
    /\ ChangeForgejo(p, Gone, "migrate")
    /\ acked' = IF proc[p].cmd = "recreate" /\ forgejo' # forgejo THEN acked \cap github ELSE acked
Migrate(p) ==
    /\ proc[p].at = "migrate"
    /\ IF forgejo.kind # None THEN Only(End(p))
       ELSE /\ ChangeForgejo(p, [Gone EXCEPT !.kind = "regular", !.commits = github], "done")
            /\ UNCHANGED acked

\* pull: a clone of GitHub's is pushed to Forgejo.
Clone(p) ==
    /\ At(p, "pull", "listed")
    /\ Only(IF proc[p].kind = None THEN End(p)
            ELSE proc' = [proc EXCEPT ![p].clone = github, ![p].kind = None, ![p].at = "push"])
Push(p) ==
    /\ At(p, "pull", "push")
    /\ IF Takes("https", proc[p].clone)
       THEN ChangeForgejo(p, [forgejo EXCEPT !.commits = proc[p].clone], "done") /\ UNCHANGED acked
       ELSE Only(End(p))

\* mirror-github: no push mirror for what is GitHub-primary; whether the
\* repository is a pull mirror is not asked.
MirrorRead(p) ==
    /\ proc[p].at = "listed" /\ proc[p].cmd \in Mirroring
    /\ Only(IF proc[p].kind = None \/ primary \/ (forgejo.mirrored /\ proc[p].cmd = "mirror") THEN End(p)
            ELSE Goto(p, IF forgejo.mirrored THEN "unmirror" ELSE "mirror"))
MirrorDelete(p) ==
    At(p, "refresh", "unmirror") /\ ChangeForgejo(p, [forgejo EXCEPT !.mirrored = FALSE], "mirror") /\ UNCHANGED acked
MirrorCreate(p) ==
    /\ proc[p].at = "mirror"
    /\ IF forgejo.kind = None THEN Only(End(p))
       ELSE ChangeForgejo(p, [forgejo EXCEPT !.mirrored = TRUE], "done") /\ UNCHANGED acked

Next ==
    \/ PullMirrorSync \/ PushMirrorSync \/ Commit
    \/ \E p \in Process :
          \/ \E cmd \in Timed \cup Rebuilding \cup Mirroring : Begin(p, cmd)
          \/ SyncRead(p) \/ SyncUnset(p) \/ SyncReread(p) \/ SyncCheck(p) \/ SyncOwn(p) \/ SyncAdd(p)
          \/ PrimaryRead(p) \/ PrimaryRecord(p) \/ PrimaryOrigin(p) \/ PrimaryClear(p)
          \/ PrimaryUnpush(p) \/ PrimaryRestore(p)
          \/ Create(p) \/ Choose(p) \/ Delete(p) \/ Migrate(p) \/ Clone(p) \/ Push(p)
          \/ MirrorRead(p) \/ MirrorDelete(p) \/ MirrorCreate(p) \/ Die(p)

Spec == Init /\ [][Next]_vars

-----------------------------------------------------------------------------
(* Properties *)

\* The type invariant.
TypeOK ==
    /\ primary \in BOOLEAN
    /\ github \subseteq 1 .. MaxCommit /\ acked \subseteq 1 .. commits
    /\ overwritten \subseteq 1 .. MaxCommit
    /\ forgejo \in [kind : {None, "mirror", "regular"}, commits : SUBSET (1 .. MaxCommit), mirrored : BOOLEAN]
    /\ remotes \in [from : Address, origin : Address, github : {None, "gh"}, push : SUBSET Address]
    /\ \A p \in Process : proc[p].kind \in {None, "mirror", "regular"} /\ proc[p].push \subseteq Address

\* A commit that reached the forge it belongs to is lost in one way alone: by the
\* push mirror that mirror-github sets on a pull mirror, which it takes in with all
\* repositories (cmdMirrorGitHub, cmdMirrorRemote), and which overwrites what GitHub
\* got since the pull.  Otherwise none is, however the commands, the mirrors and the
\* failures between a deletion and the migration that follows meet (cmdConvert,
\* cmdPull); and a checkout cloned from GitHub keeps GitHub's address as one of its
\* remotes (ensureForgejoPrimary).
NothingIsLost ==
    /\ acked \subseteq github \cup forgejo.commits \cup overwritten
    /\ remotes.from = "gh" => "gh" \in {remotes.origin, remotes.github}
=============================================================================
