------------------------------ MODULE ApprovalSpool ------------------------------
(***************************************************************************)
(* The spool that `credential-approval wait' shares with the deck's page   *)
(* (src/tools/credential-approval, src/tools/deck/consent.go): a command   *)
(* publishes its request and polls for an answer; the page relays what a   *)
(* person answers in one of several windows.  Both work with files only,   *)
(* one system call at a time, and either may go on after the other ended.  *)
(*                                                                         *)
(* Time is in half seconds, as the page and the sweep read whole seconds   *)
(* and a deadline may fall between two.  An answer is the window it came   *)
(* from; whether its signature verifies is external.                       *)
(***************************************************************************)
EXTENDS Integers, FiniteSets

CONSTANTS Command,   \* the waiting commands, one request each
          Window,    \* the person's windows, which answer once each
          Timeouts,  \* the --timeout values, in half seconds
          MaxTime,   \* bound of the clock
          MaxFaults  \* bound of the signals and kills

VARIABLES
    now,
    cmd,       \* each command's process
    request,   \* <id>.request.json: its expiresAt, or 0 when there is none
    response,  \* <id>.response.json: the window that answered, or None
    claim,     \* <id>.response.claim, likewise
    rejected,  \* <id>.rejected: whether it is there
    window,    \* each window: the request it answers and how far it is
    latest,    \* the window that answered each request last
    faults     \* the signals and kills so far

vars == <<now, cmd, request, response, claim, rejected, window, latest, faults>>
files == <<request, response, claim, rejected>>

None == "none"
Parameters == /\ None \notin Window /\ Timeouts \subseteq Nat
              /\ MaxTime \in Nat /\ MaxFaults \in Nat

\* The suffixes of a request's files, in the order a directory lists them.
Suffix == {"rejected", "request", "claim", "response"}
Listed == [rejected |-> 1, request |-> 2, claim |-> 3, response |-> 4]
\* The order in which remove takes them.
Removal == [request |-> 1, response |-> 2, claim |-> 3, rejected |-> 4]

NewCommand == [at |-> "new", started |-> 0, deadline |-> 0, todo |-> {}, answer |-> None,
               signalled |-> FALSE]

Init ==
    /\ now = 0
    /\ cmd = [c \in Command |-> NewCommand]
    /\ request = [c \in Command |-> 0]
    /\ response = [c \in Command |-> None] /\ claim = [c \in Command |-> None]
    /\ rejected = [c \in Command |-> FALSE]
    /\ window = [w \in Window |-> [at |-> "new", id |-> None, kind |-> "bad"]]
    /\ latest = [c \in Command |-> None]
    /\ faults = 0

At(c, step) == cmd[c].at = step
Seconds(t) == t \div 2

\* Mutant: the expiry is cut to whole seconds.
ExpiryTruncated(t) == t \div 2

\* expirySeconds rounds up.
ExpirySeconds(t) == (t + 1) \div 2

Present == {f \in Command \X Suffix :
                CASE f[2] = "request" -> request[f[1]] # 0
                  [] f[2] = "response" -> response[f[1]] # None
                  [] f[2] = "claim" -> claim[f[1]] # None
                  [] OTHER -> rejected[f[1]]}

\* os.Remove, of a file that may be gone already.
RemoveFile(c, suffix) ==
    /\ request' = IF suffix = "request" THEN [request EXCEPT ![c] = 0] ELSE request
    /\ response' = IF suffix = "response" THEN [response EXCEPT ![c] = None] ELSE response
    /\ claim' = IF suffix = "claim" THEN [claim EXCEPT ![c] = None] ELSE claim
    /\ rejected' = IF suffix = "rejected" THEN [rejected EXCEPT ![c] = FALSE] ELSE rejected

-----------------------------------------------------------------------------
(* The waiting command *)

\* The deadline is set, then the spool is listed for the sweep.
Open(c) ==
    /\ At(c, "new")
    /\ \E timeout \in Timeouts :
         cmd' = [cmd EXCEPT ![c].at = "sweep", ![c].started = now, ![c].deadline = now + timeout,
                            ![c].todo = Present]
    /\ UNCHANGED <<now, files, window, latest, faults>>

\* sweep: each listed file goes whose request expired, or is not there by now.
Sweep(c) ==
    /\ At(c, "sweep")
    /\ \E f \in cmd[c].todo :
         /\ \A g \in cmd[c].todo : g[1] = f[1] => Listed[f[2]] <= Listed[g[2]]
         /\ cmd' = [cmd EXCEPT ![c].todo = @ \ {f}]
         /\ IF request[f[1]] <= Seconds(cmd[c].started)
            THEN RemoveFile(f[1], f[2]) ELSE UNCHANGED files
    /\ UNCHANGED <<now, window, latest, faults>>

Publish(c) ==
    /\ At(c, "sweep") /\ cmd[c].todo = {}
    /\ request' = [request EXCEPT ![c] = ExpirySeconds(cmd[c].deadline)]
    /\ cmd' = [cmd EXCEPT ![c].at = "look"]
    /\ UNCHANGED <<now, response, claim, rejected, window, latest, faults>>

\* readResponse claims an answer by renaming it ...
Look(c) ==
    /\ At(c, "look")
    /\ IF response[c] = None
       THEN cmd' = [cmd EXCEPT ![c].at = "select"] /\ UNCHANGED <<response, claim>>
       ELSE /\ cmd' = [cmd EXCEPT ![c].at = "claimed"]
            /\ claim' = [claim EXCEPT ![c] = response[c]]
            /\ response' = [response EXCEPT ![c] = None]
    /\ UNCHANGED <<now, request, rejected, window, latest, faults>>

\* ... reads the claim and removes it.  A claim that another command's sweep
\* took away counts as a bad answer.
Read(c) ==
    /\ At(c, "claimed")
    /\ cmd' = [cmd EXCEPT ![c].at = "evaluate", ![c].answer = claim[c]]
    /\ claim' = [claim EXCEPT ![c] = None]
    /\ UNCHANGED <<now, request, response, rejected, window, latest, faults>>

Good(w) == w # None /\ window[w].kind # "bad"
Over(c) == cmd[c].signalled \/ now >= cmd[c].deadline

\* A deny or a verified approval ends the wait, unless it is too late for it;
\* any other answer is marked as rejected.
Evaluate(c) ==
    LET answered == Good(cmd[c].answer) IN
    /\ At(c, "evaluate")
    /\ cmd' = [cmd EXCEPT ![c].answer = None,
                 ![c].at = IF ~ answered THEN "reject" ELSE IF Over(c) THEN "select" ELSE "end",
                 ![c].todo = IF answered /\ ~ Over(c) THEN Suffix ELSE {}]
    /\ UNCHANGED <<now, files, window, latest, faults>>

MarkRejected(c) ==
    /\ At(c, "reject")
    /\ rejected' = [rejected EXCEPT ![c] = TRUE]
    /\ cmd' = [cmd EXCEPT ![c].at = "select"]
    /\ UNCHANGED <<now, request, response, claim, window, latest, faults>>

\* The next poll, or the end of the wait: when both are due, either.
Poll(c) ==
    /\ At(c, "select") /\ cmd' = [cmd EXCEPT ![c].at = "look"]
    /\ UNCHANGED <<now, files, window, latest, faults>>
EndWait(c) ==
    /\ At(c, "select") /\ Over(c)
    /\ cmd' = [cmd EXCEPT ![c].at = "end", ![c].todo = Suffix]
    /\ UNCHANGED <<now, files, window, latest, faults>>

\* remove: the request first, then the answer and what belongs to it.
Remove(c) ==
    /\ At(c, "end")
    /\ \E next \in cmd[c].todo :
         /\ \A other \in cmd[c].todo : Removal[next] <= Removal[other]
         /\ RemoveFile(c, next)
         /\ cmd' = IF cmd[c].todo = {next} THEN [cmd EXCEPT ![c] = [NewCommand EXCEPT !.at = "over"]]
                   ELSE [cmd EXCEPT ![c].todo = @ \ {next}]
    /\ UNCHANGED <<now, window, latest, faults>>

Fault == faults < MaxFaults /\ faults' = faults + 1

Signal(c) ==
    /\ cmd[c].at \in {"look", "claimed", "evaluate", "reject", "select"} /\ ~ cmd[c].signalled
    /\ cmd' = [cmd EXCEPT ![c].signalled = TRUE] /\ Fault
    /\ UNCHANGED <<now, files, window, latest>>

Kill(c) ==
    /\ cmd[c].at \notin {"new", "over"}
    /\ cmd' = [cmd EXCEPT ![c] = [NewCommand EXCEPT !.at = "over"]] /\ Fault
    /\ UNCHANGED <<now, files, window, latest>>

-----------------------------------------------------------------------------
(* The page *)

\* consentApprove, consentDeny: the request must be there and not expired.  A
\* deny and an approval that verifies are good answers.
Answer(w) ==
    /\ window[w].at = "new"
    /\ \E c \in Command, kind \in {"good", "bad"} :
         /\ request[c] > Seconds(now)
         /\ window' = [window EXCEPT ![w] = [at |-> "clear", id |-> c, kind |-> kind]]
    /\ UNCHANGED <<now, cmd, files, latest, faults>>

\* writeConsentResponse: the mark of the last answer goes, then this one is
\* renamed into its place, whatever is there or has become of the request.
ClearRejected(w) ==
    /\ window[w].at = "clear"
    /\ window' = [window EXCEPT ![w].at = "write"]
    /\ rejected' = [rejected EXCEPT ![window[w].id] = FALSE]
    /\ UNCHANGED <<now, cmd, request, response, claim, latest, faults>>

WriteResponse(w) ==
    /\ window[w].at = "write"
    /\ window' = [window EXCEPT ![w].at = "over", ![w].id = None]
    /\ response' = [response EXCEPT ![window[w].id] = w]
    /\ latest' = [latest EXCEPT ![window[w].id] = w]
    /\ UNCHANGED <<now, cmd, request, claim, rejected, faults>>

Tick == /\ now < MaxTime /\ now' = now + 1
        /\ UNCHANGED <<cmd, files, window, latest, faults>>

Next ==
    \/ \E c \in Command :
          \/ Open(c) \/ Sweep(c) \/ Publish(c) \/ Look(c) \/ Read(c) \/ Evaluate(c)
          \/ MarkRejected(c) \/ Poll(c) \/ EndWait(c) \/ Remove(c) \/ Signal(c) \/ Kill(c)
    \/ \E w \in Window : Answer(w) \/ ClearRejected(w) \/ WriteResponse(w)
    \/ Tick

Spec == Init /\ [][Next]_vars

-----------------------------------------------------------------------------
(* Properties *)

\* The type invariant.
TypeOK ==
    /\ now \in 0 .. MaxTime /\ faults \in 0 .. MaxFaults
    /\ \A c \in Command :
         /\ cmd[c].at \in {"new", "sweep", "look", "claimed", "evaluate", "reject", "select",
                           "end", "over"}
         /\ cmd[c].answer \in Window \cup {None} /\ cmd[c].signalled \in BOOLEAN
         /\ request[c] \in Nat /\ rejected[c] \in BOOLEAN
         /\ {response[c], claim[c], latest[c]} \subseteq Window \cup {None}
    /\ \A w \in Window : window[w].at \in {"new", "clear", "write", "over"}

\* A deny or a valid approval that the page wrote last is never lost while its
\* request could still count it: it waits where the command looks for it or the
\* command has it (readResponse, "a bad answer cannot block a good one"; sweep,
\* "Requests still live stay").
NoAnswerLost ==
    \A c \in Command :
        (Good(latest[c]) /\ ~ Over(c) /\ cmd[c].at \notin {"end", "over"}) =>
            latest[c] \in {response[c], claim[c], cmd[c].answer}
================================================================================
