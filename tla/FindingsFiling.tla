----------------------------- MODULE FindingsFiling -----------------------------
(***************************************************************************)
(* `revkit findings file` (src/tools/revkit/file.go): stored findings are  *)
(* filed as issues, or linked to open ones, beside reviews, dismissals and *)
(* reopenings that change the store, people at the tracker, lost responses *)
(* and deaths.  A request that gets no response took effect before the     *)
(* next command asks, or never.  An issue revkit filed ends with a footer  *)
(* that names the finding, the store and the finding's full title; what    *)
(* people do to an issue here is to open one or to close it.               *)
(***************************************************************************)
EXTENDS Integers, FiniteSets, SequencesExt

CONSTANTS Command, Finding, Title,
          MaxIssues, MaxFaults, MaxChanges \* bounds

VARIABLES
    store,   \* the findings store
    issues,  \* the tracker: a sequence, an issue's place is its URL
    cmd,     \* the filing commands
    faults, changes

vars == <<store, issues, cmd, faults, changes>>

\* One request files finitely many findings.
Parameters == IsFiniteSet(Finding) /\ {MaxIssues, MaxFaults, MaxChanges} \subseteq Nat

None == "none"
Idle == [at |-> "idle", chosen |-> <<>>, fresh |-> FALSE, listed |-> {}, made |-> {}, issue |-> 0]

Stored == [status : {"open", "filed", "dismissed"}, title : Title, issue : 0 .. MaxIssues,
           security : BOOLEAN, confirmed : BOOLEAN]
Issue == [title : Title, finding : Finding \cup {None}, fresh : BOOLEAN, open : BOOLEAN]

Init ==
    /\ store \in [Finding -> {[status |-> "open", title |-> t, issue |-> 0, security |-> FALSE,
                               confirmed |-> TRUE] : t \in Title}]
    /\ issues = <<>> /\ faults = 0 /\ changes = 0
    /\ cmd = [c \in Command |-> Idle]

Fileable(f) == ~ store[f].security /\ store[f].status = "open" /\ store[f].confirmed

Change == changes < MaxChanges /\ changes' = changes + 1

-----------------------------------------------------------------------------
(* A filing command *)

\* The process holds the store's filing lock from here to its end, which the
\* kernel releases with it.
LockFiling(c) == cmd[c].at = "idle" /\ \A d \in Command \ {c} : cmd[d].at = "idle"

\* fileFindings refuses the whole request if it may not file one of them; it
\* goes on with the titles it read.
Pick(c, chosen, fresh) ==
    /\ LockFiling(c)
    /\ \A f \in ToSet(chosen) : Fileable(f)
    /\ cmd' = [cmd EXCEPT ![c] = [Idle EXCEPT
                !.at = "list", !.fresh = fresh,
                !.chosen = [k \in DOMAIN chosen |-> [id |-> chosen[k], title |-> store[chosen[k]].title]]]]
    /\ UNCHANGED <<store, issues, faults, changes>>

Stop(c) == cmd' = [cmd EXCEPT ![c] = Idle]

ListOpen(c) ==
    /\ cmd[c].at = "list"
    /\ cmd' = [cmd EXCEPT ![c].at = "next", ![c].listed = {i \in DOMAIN issues : issues[i].open}]
    /\ UNCHANGED <<store, issues, faults, changes>>

\* Mutant: only titles link.
OwnByTitle(c, sf) == {}

\* filedIssues: the issue revkit filed for this finding of this store ...
Own(c, sf) == {i \in cmd[c].listed : issues[i].finding = sf.id /\ issues[i].title = sf.title}

\* ... and, unless --new is given, those this title links: people's before
\* revkit's, then the one this command filed.
Same(c, sf) ==
    LET alike == {i \in cmd[c].listed \cup cmd[c].made : issues[i].title = sf.title}
        theirs == {i \in alike : issues[i].finding = None}
    IN  IF cmd[c].fresh THEN {} ELSE IF theirs # {} THEN theirs ELSE alike

Linkable(c, sf) == IF Own(c, sf) # {} THEN Own(c, sf) ELSE Same(c, sf)

\* The next finding: it links an issue, or is checked again and filed.
NextFinding(c) ==
    /\ cmd[c].at = "next"
    /\ IF cmd[c].chosen = <<>> THEN Stop(c)
       ELSE LET sf == Head(cmd[c].chosen) IN
            \/ \E i \in Linkable(c, sf) : cmd' = [cmd EXCEPT ![c].at = "mark", ![c].issue = i]
            \/ /\ Linkable(c, sf) = {}
               /\ IF Fileable(sf.id) THEN cmd' = [cmd EXCEPT ![c].at = "create"] ELSE Stop(c)
    /\ UNCHANGED <<store, issues, faults, changes>>

NewIssue(c) ==
    LET sf == Head(cmd[c].chosen)
    IN  [title |-> sf.title, finding |-> sf.id, fresh |-> cmd[c].fresh, open |-> TRUE]
CreateIssue(c) ==
    /\ cmd[c].at = "create" /\ Len(issues) < MaxIssues
    /\ issues' = Append(issues, NewIssue(c))
    /\ cmd' = [cmd EXCEPT ![c].at = "mark", ![c].issue = Len(issues) + 1,
                          ![c].made = @ \cup {Len(issues) + 1}]
    /\ UNCHANGED <<store, faults, changes>>

\* No response: the command ends, its issue may exist.
LoseResponse(c) ==
    /\ cmd[c].at = "create" /\ faults < MaxFaults /\ faults' = faults + 1
    /\ \/ Len(issues) < MaxIssues /\ issues' = Append(issues, NewIssue(c))
       \/ UNCHANGED issues
    /\ Stop(c)
    /\ UNCHANGED <<store, changes>>

\* markFiled: if the rules still allow it.
MarkFiled(c) ==
    LET f == Head(cmd[c].chosen).id IN
    /\ cmd[c].at = "mark"
    /\ IF Fileable(f)
       THEN /\ store' = [store EXCEPT ![f].status = "filed", ![f].issue = cmd[c].issue]
            /\ cmd' = [cmd EXCEPT ![c].at = "next", ![c].issue = 0, ![c].chosen = Tail(@)]
       ELSE Stop(c) /\ UNCHANGED store
    /\ UNCHANGED <<issues, faults, changes>>

\* Another error, an interrupt between two findings, or a death.
Die(c) ==
    /\ cmd[c].at # "idle" /\ faults < MaxFaults /\ faults' = faults + 1
    /\ Stop(c)
    /\ UNCHANGED <<store, issues, changes>>

-----------------------------------------------------------------------------
(* Others *)

\* `findings dismiss` and `findings reopen`: a finding that is filed is not
\* dismissed, and one that is reopened leaves its issue as it is.
Dismiss(f) ==
    /\ Change /\ store[f].status # "filed"
    /\ store' = [store EXCEPT ![f].status = "dismissed"]
    /\ UNCHANGED <<issues, cmd, faults>>
Reopen(f) ==
    /\ Change /\ store[f].status # "open"
    /\ store' = [store EXCEPT ![f].status = "open", ![f].issue = 0]
    /\ UNCHANGED <<issues, cmd, faults>>

\* A review reports the problem again and may describe it anew; it keeps the
\* status, and a flag once given.
Sight(f) ==
    /\ Change
    /\ \E title \in Title, security, confirmed \in BOOLEAN :
          store' = [store EXCEPT ![f].title = title, ![f].confirmed = confirmed,
                                 ![f].security = @ \/ security]
    /\ UNCHANGED <<issues, cmd, faults>>

OpenIssue(title) ==
    /\ Change /\ Len(issues) < MaxIssues
    /\ issues' = Append(issues, [title |-> title, finding |-> None, fresh |-> FALSE, open |-> TRUE])
    /\ UNCHANGED <<store, cmd, faults>>
CloseIssue(i) ==
    /\ Change /\ issues[i].open
    /\ issues' = [issues EXCEPT ![i].open = FALSE]
    /\ UNCHANGED <<store, cmd, faults>>

Next ==
    \/ \E c \in Command :
          \/ ListOpen(c) \/ NextFinding(c) \/ CreateIssue(c) \/ LoseResponse(c) \/ MarkFiled(c) \/ Die(c)
          \/ \E fs \in (SUBSET Finding) \ {{}}, fresh \in BOOLEAN :
                \E chosen \in SetToSeqs(fs) : Pick(c, chosen, fresh)
    \/ \E f \in Finding : Dismiss(f) \/ Reopen(f) \/ Sight(f)
    \/ \E title \in Title : OpenIssue(title)
    \/ \E i \in DOMAIN issues : CloseIssue(i)

Spec == Init /\ [][Next]_vars

-----------------------------------------------------------------------------
(* Properties *)

\* The type invariant.
TypeOK ==
    /\ store \in [Finding -> Stored] /\ issues \in Seq(Issue) /\ Len(issues) <= MaxIssues
    /\ \A c \in Command :
          /\ cmd[c].at \in {"idle", "list", "next", "create", "mark"}
          /\ cmd[c].chosen \in Seq([id : Finding, title : Title])
          /\ cmd[c].listed \cup cmd[c].made \subseteq DOMAIN issues /\ cmd[c].issue \in {0} \cup DOMAIN issues
    /\ faults \in 0 .. MaxFaults /\ changes \in 0 .. MaxChanges

\* A problem is filed once, whatever response is lost, command killed or retried:
\* revkit has never two open issues for one finding under one title, nor two for
\* one title unless --new asked for one of them; and a finding that is filed
\* names an issue of the tracker (fileFindings, filedIssues, lockFiling).
FiledOnce ==
    /\ \A i, j \in DOMAIN issues :
          LET a == issues[i]
              b == issues[j]
          IN  (/\ i # j /\ a.open /\ b.open /\ a.title = b.title
               /\ a.finding # None /\ b.finding # None)
                 => a.finding # b.finding /\ (a.fresh \/ b.fresh)
    /\ \A f \in Finding : store[f].status = "filed" => store[f].issue \in DOMAIN issues
=============================================================================
