----------------------------- MODULE ToolsProofs -----------------------------
(***************************************************************************)
(* Proofs about the modules of the tools outside nix-deploy, for any       *)
(* processes, times and faults: ApprovalSpool, and the instances T of      *)
(* TokenCache, K of KeyProvisioning, M of ForgeMirror, F of FindingsFiling *)
(* and S of ThreadSummary, each a specification of its own (where two of   *)
(* them use one name, as for the clock, they are about it apart).          *)
(*                                                                         *)
(* ApprovalSpool.  Kept is what the sweep relies on: a command that can    *)
(* still count an answer has its request in the spool, or nobody could     *)
(* have swept it yet; Fresh that nobody answers a request before it is     *)
(* published; Held where an answer can be at each step.                    *)
(***************************************************************************)
EXTENDS ApprovalSpool, FiniteSetTheorems, SequenceTheorems, TLAPS

Answers == Window \cup {None}

Process == [at : {"new", "sweep", "look", "claimed", "evaluate", "reject", "select", "end", "over"},
            started : Nat, deadline : Nat,
            todo : (SUBSET (Command \X Suffix)) \cup (SUBSET Suffix),
            answer : Answers, signalled : BOOLEAN]

FilesTyped ==
    /\ request \in [Command -> Nat] /\ rejected \in [Command -> BOOLEAN]
    /\ response \in [Command -> Answers] /\ claim \in [Command -> Answers]

\* The type invariant, of the whole state.
Typed ==
    /\ now \in 0 .. MaxTime /\ faults \in 0 .. MaxFaults
    /\ cmd \in [Command -> Process]
    /\ FilesTyped /\ latest \in [Command -> Answers]
    /\ window \in [Window -> [at : {"new", "clear", "write", "over"}, id : Command \cup {None},
                              kind : {"good", "bad"}]]
    /\ \A w \in Window : window[w].at \in {"clear", "write"} => window[w].id \in Command

Published(c) == cmd[c].at \notin {"new", "sweep"}
Waiting(c) == cmd[c].at \in {"look", "claimed", "evaluate", "reject", "select"}

\* Nobody answers a request that is not published.
Fresh ==
    /\ \A c \in Command : ~ Published(c) =>
          request[c] = 0 /\ response[c] = None /\ claim[c] = None /\ latest[c] = None
    /\ \A w \in Window : window[w].at \in {"clear", "write"} => Published(window[w].id)

\* A request is there as long as its command may count an answer, for longer
\* than any sweep that has started would leave it.
Kept ==
    \A c \in Command :
        /\ cmd[c].started <= now
        /\ Waiting(c) /\ ~ Over(c) => request[c] = ExpirySeconds(cmd[c].deadline)

\* An answer that a command has taken waits for its next step; the answer
\* written last is of a window that has done its work.
Held ==
    \A c \in Command :
        /\ claim[c] # None /\ Waiting(c) => cmd[c].at = "claimed"
        /\ cmd[c].answer # None => cmd[c].at = "evaluate"
        /\ latest[c] # None => window[latest[c]].at = "over"

Inv == Typed /\ Fresh /\ Kept /\ Held /\ NoAnswerLost

-----------------------------------------------------------------------------
(* The operators *)

(* A deadline that is not reached is not expired for any sweep started before *)
(* (expirySeconds rounds up, sweep compares whole seconds).                   *)
LEMMA ExpiryAhead ==
    ASSUME NEW t \in Nat, NEW d \in Nat, t < d
    PROVE  ~ ExpirySeconds(d) <= Seconds(t)
BY DEF ExpirySeconds, Seconds

(* Removing a file keeps the types and every other file.                      *)
LEMMA RemoveFileFacts ==
    ASSUME FilesTyped, NEW c, NEW suffix, RemoveFile(c, suffix)
    PROVE  /\ FilesTyped'
           /\ \A d \in Command : d # c => /\ request'[d] = request[d] /\ response'[d] = response[d]
                                          /\ claim'[d] = claim[d] /\ rejected'[d] = rejected[d]
           /\ \A d \in Command : /\ request'[d] \in {request[d], 0}
                                 /\ response'[d] \in {response[d], None}
                                 /\ claim'[d] \in {claim[d], None}
BY DEF FilesTyped, RemoveFile, Answers

-----------------------------------------------------------------------------
(* Typing *)

(* The types are kept by every step of a command. *)
LEMMA TypedCommand ==
    ASSUME Parameters, Typed, NEW c \in Command,
           \/ Open(c) \/ Sweep(c) \/ Publish(c) \/ Look(c) \/ Read(c) \/ Evaluate(c)
           \/ MarkRejected(c) \/ Poll(c) \/ EndWait(c) \/ Remove(c) \/ Signal(c) \/ Kill(c)
    PROVE  Typed'
<1>1. /\ cmd \in [Command -> Process] /\ cmd[c] \in Process /\ now \in Nat
      /\ FilesTyped /\ Present \subseteq Command \X Suffix /\ None \in Answers
  BY DEF Typed, Parameters, Present, Answers
<1>2. UNCHANGED <<now, window, latest>>
  BY DEF Open, Sweep, Publish, Look, Read, Evaluate, MarkRejected, Poll, EndWait, Remove, Signal, Kill
<1>3. faults' \in 0 .. MaxFaults
  <2>1. faults' = faults \/ (faults < MaxFaults /\ faults' = faults + 1)
    BY DEF Open, Sweep, Publish, Look, Read, Evaluate, MarkRejected, Poll, EndWait, Remove, Signal,
           Kill, Fault
  <2> QED
    BY <2>1 DEF Typed, Parameters
<1>4. NewCommand \in Process /\ [NewCommand EXCEPT !.at = "over"] \in Process
  BY <1>1 DEF NewCommand, Process
<1>5. cmd' \in [Command -> Process] /\ FilesTyped'
  <2>1. CASE Open(c)
    <3>1. PICK timeout \in Timeouts :
            cmd' = [cmd EXCEPT ![c].at = "sweep", ![c].started = now, ![c].deadline = now + timeout,
                               ![c].todo = Present]
      BY <2>1 DEF Open
    <3>2. now + timeout \in Nat
      BY <1>1 DEF Parameters
    <3> QED
      BY <1>1, <2>1, <3>1, <3>2 DEF Open, Process, files, FilesTyped
  <2>2. CASE Sweep(c)
    <3>1. PICK f \in cmd[c].todo :
            /\ cmd' = [cmd EXCEPT ![c].todo = cmd[c].todo \ {f}]
            /\ RemoveFile(f[1], f[2]) \/ UNCHANGED files
      BY <2>2 DEF Sweep
    <3>2. cmd[c].todo \ {f} \in (SUBSET (Command \X Suffix)) \cup (SUBSET Suffix)
      BY <1>1 DEF Process
    <3>3. cmd' \in [Command -> Process]
      BY <1>1, <3>1, <3>2 DEF Process
    <3>4. FilesTyped'
      BY <1>1, <3>1, RemoveFileFacts DEF files, FilesTyped
    <3> QED
      BY <3>3, <3>4
  <2>3. CASE Publish(c)
    <3>1. ExpirySeconds(cmd[c].deadline) \in Nat
      BY <1>1 DEF Process, ExpirySeconds
    <3> QED
      BY <1>1, <2>3, <3>1 DEF Publish, Process, FilesTyped
  <2>4. CASE Look(c)
    <3>1. response[c] \in Answers
      BY <1>1 DEF FilesTyped
    <3>2. FilesTyped'
      BY <1>1, <2>4, <3>1 DEF Look, FilesTyped
    <3>3. \E at \in {"select", "claimed"} : cmd' = [cmd EXCEPT ![c].at = at]
      BY <2>4 DEF Look
    <3> QED
      BY <1>1, <3>2, <3>3 DEF Process
  <2>8. CASE Read(c)
    BY <1>1, <2>8 DEF Read, Process, FilesTyped
  <2>9. CASE MarkRejected(c) \/ Poll(c)
    <3>1. FilesTyped'
      BY <1>1, <2>9 DEF MarkRejected, Poll, FilesTyped, files
    <3>2. \E at \in {"select", "look"} : cmd' = [cmd EXCEPT ![c].at = at]
      BY <2>9 DEF MarkRejected, Poll
    <3> QED
      BY <1>1, <3>1, <3>2 DEF Process
  <2>5. CASE Evaluate(c) \/ EndWait(c)
    <3>1. FilesTyped'
      BY <1>1, <2>5 DEF Evaluate, EndWait, FilesTyped, files
    <3>2. cmd' \in [Command -> Process]
      <4>1. CASE Evaluate(c)
        BY <1>1, <4>1 DEF Evaluate, Process
      <4>2. CASE EndWait(c)
        BY <1>1, <4>2 DEF EndWait, Process
      <4> QED BY <2>5, <4>1, <4>2
    <3> QED BY <3>1, <3>2
  <2>6. CASE Remove(c)
    <3>1. PICK next \in cmd[c].todo :
            /\ RemoveFile(c, next)
            /\ \/ cmd' = [cmd EXCEPT ![c] = [NewCommand EXCEPT !.at = "over"]]
               \/ cmd' = [cmd EXCEPT ![c].todo = cmd[c].todo \ {next}]
      BY <2>6 DEF Remove
    <3>2. cmd[c].todo \ {next} \in (SUBSET (Command \X Suffix)) \cup (SUBSET Suffix)
      BY <1>1 DEF Process
    <3>3. cmd' \in [Command -> Process]
      BY <1>1, <1>4, <3>1, <3>2 DEF Process
    <3>4. FilesTyped'
      BY <1>1, <3>1, RemoveFileFacts
    <3> QED
      BY <3>3, <3>4
  <2>7. CASE Signal(c)
    BY <1>1, <2>7 DEF Signal, Process, FilesTyped, files
  <2>10. CASE Kill(c)
    BY <1>1, <1>4, <2>10 DEF Kill, FilesTyped, files
  <2> QED
    BY <2>1, <2>2, <2>3, <2>4, <2>5, <2>6, <2>7, <2>8, <2>9, <2>10
<1> QED
  BY <1>2, <1>3, <1>5 DEF Typed

(* And by every step of the page and the clock. *)
LEMMA TypedNext ==
    ASSUME Parameters, Typed, [Next]_vars
    PROVE  Typed'
<1>1. ASSUME NEW w \in Window, Answer(w)
      PROVE  Typed'
  <2>1. UNCHANGED <<cmd, now>>
    BY <1>1 DEF Answer
  <2> QED
    BY <1>1, <2>1 DEF Answer, Typed, files, FilesTyped
<1>2. ASSUME NEW w \in Window, ClearRejected(w)
      PROVE  Typed'
  BY <1>2 DEF ClearRejected, Typed, FilesTyped
<1>3. ASSUME NEW w \in Window, WriteResponse(w)
      PROVE  Typed'
  <2> DEFINE r == [window[w] EXCEPT !.at = "over", !.id = None]
             T == [at : {"new", "clear", "write", "over"}, id : Command \cup {None}, kind : {"good", "bad"}]
  <2>1. /\ window \in [Window -> T] /\ window' = [window EXCEPT ![w] = r]
        /\ window[w].id \in Command /\ w \in Answers
    BY <1>3 DEF WriteResponse, Typed, Answers
  <2>2. r \in T /\ r.at = "over"
    BY <2>1
  <2> HIDE DEF r
  <2>3. /\ window' \in [Window -> T]
        /\ \A v \in Window : window'[v].at \in {"clear", "write"} => window'[v].id \in Command
    BY <2>1, <2>2 DEF Typed
  <2>4. FilesTyped' /\ latest' \in [Command -> Answers]
    BY <1>3, <2>1 DEF WriteResponse, Typed, FilesTyped
  <2> QED
    BY <1>3, <2>3, <2>4 DEF WriteResponse, Typed
<1>4. CASE Tick
  BY <1>4 DEF Tick, Typed, files, FilesTyped, Parameters
<1>5. CASE UNCHANGED vars
  BY <1>5 DEF vars, files, Typed, FilesTyped
<1> QED
  BY <1>1, <1>2, <1>3, <1>4, <1>5, TypedCommand DEF Next

-----------------------------------------------------------------------------
(* What a command's step does *)

\* Its wait stays as it is, or ends.
Keeps(c) == /\ cmd'[c].started = cmd[c].started /\ cmd'[c].deadline = cmd[c].deadline
            /\ cmd[c].signalled => cmd'[c].signalled
Moves(c, from, to) == cmd[c].at = from /\ cmd'[c].at = to

Opens(c) == /\ Moves(c, "new", "sweep") /\ cmd'[c].started = now
            /\ cmd'[c].answer = cmd[c].answer /\ UNCHANGED files
Sweeps(c) ==
    /\ Moves(c, "sweep", "sweep") /\ Keeps(c) /\ cmd'[c].answer = cmd[c].answer
    /\ \/ UNCHANGED files
       \/ \E d, suffix : RemoveFile(d, suffix) /\ request[d] <= Seconds(cmd[c].started)
Publishes(c) ==
    /\ Moves(c, "sweep", "look") /\ Keeps(c) /\ cmd'[c].answer = cmd[c].answer
    /\ request' = [request EXCEPT ![c] = ExpirySeconds(cmd[c].deadline)]
    /\ UNCHANGED <<response, claim>>
Takes(c) ==
    /\ Moves(c, "look", "claimed") /\ Keeps(c) /\ cmd'[c].answer = cmd[c].answer
    /\ claim' = [claim EXCEPT ![c] = response[c]] /\ response' = [response EXCEPT ![c] = None]
    /\ UNCHANGED request
Reads(c) ==
    /\ Moves(c, "claimed", "evaluate") /\ Keeps(c) /\ cmd'[c].answer = claim[c]
    /\ claim' = [claim EXCEPT ![c] = None] /\ UNCHANGED <<request, response>>
Judges(c) ==
    /\ cmd[c].at = "evaluate" /\ Keeps(c) /\ cmd'[c].answer = None
    /\ \/ cmd'[c].at = "end"
       \/ cmd'[c].at \in {"reject", "select"} /\ (~ Good(cmd[c].answer) \/ Over(c))
    /\ UNCHANGED <<request, response, claim>>
GoesOn(c) ==
    /\ \/ cmd[c].at \in {"look", "reject", "select"} /\ cmd'[c].at \in {"look", "select", "end"}
       \/ Waiting(c) /\ cmd'[c].at = cmd[c].at
    /\ Keeps(c) /\ cmd'[c].answer = cmd[c].answer
    /\ UNCHANGED <<request, response, claim>>
Leaves(c) ==
    /\ cmd'[c].at \in {"end", "over"} /\ cmd'[c].started <= now
    /\ cmd'[c].answer \in {None, cmd[c].answer} /\ cmd[c].at # "new"
    /\ cmd[c].at = "evaluate" => cmd'[c].answer = None
    /\ UNCHANGED files \/ \E suffix : RemoveFile(c, suffix)

Steps(c) ==
    /\ UNCHANGED <<now, window, latest>> /\ \A d \in Command \ {c} : cmd'[d] = cmd[d]
    /\ \/ Opens(c) \/ Sweeps(c) \/ Publishes(c) \/ Takes(c) \/ Reads(c) \/ Judges(c)
       \/ GoesOn(c) \/ Leaves(c)

(* Every step of a command is one of these. *)
LEMMA CommandSteps ==
    ASSUME Parameters, Typed, Kept, NEW c \in Command,
           \/ Open(c) \/ Sweep(c) \/ Publish(c) \/ Look(c) \/ Read(c) \/ Evaluate(c)
           \/ MarkRejected(c) \/ Poll(c) \/ EndWait(c) \/ Remove(c) \/ Signal(c) \/ Kill(c)
    PROVE  Steps(c)
<1>1. /\ cmd \in [Command -> Process] /\ cmd[c] \in Process /\ now \in Nat
      /\ cmd[c].started <= now
  BY DEF Typed, Parameters, Kept
<1>2. UNCHANGED <<now, window, latest>>
  BY DEF Open, Sweep, Publish, Look, Read, Evaluate, MarkRejected, Poll, EndWait, Remove, Signal, Kill
<1>3. \A d \in Command \ {c} : cmd'[d] = cmd[d]
  BY <1>1 DEF Open, Sweep, Publish, Look, Read, Evaluate, MarkRejected, Poll, EndWait, Remove, Signal,
              Kill
<1>4. CASE Open(c)
  <2>1. PICK timeout \in Timeouts :
          cmd' = [cmd EXCEPT ![c].at = "sweep", ![c].started = now, ![c].deadline = now + timeout,
                             ![c].todo = Present]
    BY <1>4 DEF Open
  <2>2. cmd'[c].at = "sweep" /\ cmd'[c].started = now /\ cmd'[c].answer = cmd[c].answer
    BY <1>1, <2>1 DEF Process
  <2> QED
    BY <1>2, <1>3, <1>4, <2>2 DEF Open, At, Steps, Opens, Moves
<1>5. CASE Sweep(c)
  <2>1. PICK f \in cmd[c].todo :
          /\ cmd' = [cmd EXCEPT ![c].todo = cmd[c].todo \ {f}]
          /\ IF request[f[1]] <= Seconds(cmd[c].started)
             THEN RemoveFile(f[1], f[2]) ELSE UNCHANGED files
    BY <1>5 DEF Sweep
  <2>2. cmd'[c].at = cmd[c].at /\ Keeps(c) /\ cmd'[c].answer = cmd[c].answer
    BY <1>1, <2>1 DEF Process, Keeps
  <2>3. cmd[c].at = "sweep"
    BY <1>5 DEF Sweep, At
  <2> QED
    BY <1>2, <1>3, <2>1, <2>2, <2>3 DEF Steps, Sweeps, Moves
<1>6. CASE Publish(c)
  <2>1. cmd'[c].at = "look" /\ Keeps(c) /\ cmd'[c].answer = cmd[c].answer
    BY <1>1, <1>6 DEF Publish, Process, Keeps
  <2> QED
    BY <1>2, <1>3, <1>6, <2>1 DEF Publish, At, Steps, Publishes, Moves
<1>7. CASE Look(c)
  <2>1. CASE response[c] = None
    <3>1. cmd'[c].at = "select" /\ Keeps(c) /\ cmd'[c].answer = cmd[c].answer
      BY <1>1, <1>7, <2>1 DEF Look, Process, Keeps
    <3> QED
      BY <1>2, <1>3, <1>7, <2>1, <3>1 DEF Look, At, Steps, GoesOn
  <2>2. CASE response[c] # None
    <3>1. cmd'[c].at = "claimed" /\ Keeps(c) /\ cmd'[c].answer = cmd[c].answer
      BY <1>1, <1>7, <2>2 DEF Look, Process, Keeps
    <3> QED
      BY <1>2, <1>3, <1>7, <2>2, <3>1 DEF Look, At, Steps, Takes, Moves
  <2> QED
    BY <2>1, <2>2
<1>8. CASE Read(c)
  <2>1. cmd'[c].at = "evaluate" /\ Keeps(c) /\ cmd'[c].answer = claim[c]
    BY <1>1, <1>8 DEF Read, Process, Keeps
  <2> QED
    BY <1>2, <1>3, <1>8, <2>1 DEF Read, At, Steps, Reads, Moves
<1>9. CASE Evaluate(c)
  <2>1. /\ Keeps(c) /\ cmd'[c].answer = None
        /\ cmd'[c].at = IF ~ Good(cmd[c].answer) THEN "reject" ELSE IF Over(c) THEN "select" ELSE "end"
    BY <1>1, <1>9 DEF Evaluate, Process, Keeps
  <2> QED
    BY <1>2, <1>3, <1>9, <2>1 DEF Evaluate, At, files, Steps, Judges
<1>10. CASE MarkRejected(c) \/ Poll(c) \/ EndWait(c)
  <2>1. cmd[c].at \in {"reject", "select"} /\ UNCHANGED <<request, response, claim>>
    BY <1>10 DEF MarkRejected, Poll, EndWait, At, files
  <2>2. cmd'[c].at \in {"look", "select", "end"} /\ Keeps(c) /\ cmd'[c].answer = cmd[c].answer
    BY <1>1, <1>10 DEF MarkRejected, Poll, EndWait, Process, Keeps
  <2> QED
    BY <1>2, <1>3, <2>1, <2>2 DEF Steps, GoesOn
<1>11. CASE Remove(c)
  <2>1. PICK next \in cmd[c].todo :
          /\ RemoveFile(c, next)
          /\ \/ cmd' = [cmd EXCEPT ![c] = [NewCommand EXCEPT !.at = "over"]]
             \/ cmd' = [cmd EXCEPT ![c].todo = cmd[c].todo \ {next}]
    BY <1>11 DEF Remove
  <2>2. cmd[c].at = "end"
    BY <1>11 DEF Remove, At
  <2>3. cmd'[c].at \in {"end", "over"} /\ cmd'[c].started \in {0, cmd[c].started}
        /\ cmd'[c].answer \in {None, cmd[c].answer}
    BY <1>1, <2>1, <2>2 DEF Process, NewCommand
  <2> QED
    BY <1>1, <1>2, <1>3, <2>1, <2>2, <2>3 DEF Steps, Leaves
<1>12. CASE Signal(c)
  <2>1. cmd'[c].at = cmd[c].at /\ Keeps(c) /\ cmd'[c].answer = cmd[c].answer
    BY <1>1, <1>12 DEF Signal, Process, Keeps
  <2> QED
    BY <1>2, <1>3, <1>12, <2>1 DEF Signal, files, Waiting, Steps, GoesOn
<1>13. CASE Kill(c)
  <2>1. cmd'[c].at = "over" /\ cmd'[c].started = 0 /\ cmd'[c].answer = None
    BY <1>1, <1>13 DEF Kill, NewCommand
  <2> QED
    BY <1>1, <1>2, <1>3, <1>13, <2>1 DEF Kill, Steps, Leaves
<1> QED
  BY <1>4, <1>5, <1>6, <1>7, <1>8, <1>9, <1>10, <1>11, <1>12, <1>13

-----------------------------------------------------------------------------
(* The invariant is kept *)

Acts(c) == \/ Open(c) \/ Sweep(c) \/ Publish(c) \/ Look(c) \/ Read(c) \/ Evaluate(c)
           \/ MarkRejected(c) \/ Poll(c) \/ EndWait(c) \/ Remove(c) \/ Signal(c) \/ Kill(c)

(* What a sweep or a removal leaves of the files. *)
LEMMA SweptFiles ==
    ASSUME FilesTyped, NEW d, NEW suffix, RemoveFile(d, suffix)
    PROVE  \A c \in Command :
              /\ request'[c] \in {request[c], 0} /\ response'[c] \in {response[c], None}
              /\ claim'[c] \in {claim[c], None}
              /\ d # c => request'[c] = request[c] /\ response'[c] = response[c] /\ claim'[c] = claim[c]
BY RemoveFileFacts

(* A command's step leaves its own request alone while it may count an        *)
(* answer, and the others' too.                                               *)
LEMMA CommandKeeps ==
    ASSUME Parameters, Inv, NEW c \in Command, Acts(c)
    PROVE  Fresh' /\ Kept' /\ Held' /\ NoAnswerLost'
<1>1. Steps(c)
  BY CommandSteps DEF Acts, Inv
<1>2. /\ cmd \in [Command -> Process] /\ now \in Nat /\ FilesTyped
      /\ cmd' \in [Command -> Process] /\ FilesTyped' /\ latest \in [Command -> Answers]
  BY TypedCommand DEF Acts, Inv, Typed, Parameters
<1>3. UNCHANGED <<now, window, latest>> /\ \A d \in Command \ {c} : cmd'[d] = cmd[d]
  BY <1>1 DEF Steps
<1>4. Fresh /\ Kept /\ Held /\ NoAnswerLost
  BY DEF Inv
<1>5. /\ \A d \in Command : Published(d) => Published(d)'
      /\ \A d \in Command \ {c} : (Over(d) => Over(d)') /\ (Waiting(d)' <=> Waiting(d))
                                   /\ (Published(d)' <=> Published(d)) /\ (Over(d)' <=> Over(d))
  <2>1. Published(c) => Published(c)'
    BY <1>1 DEF Published, Steps, Opens, Sweeps, Publishes, Takes, Reads, Judges, GoesOn, Leaves, Moves,
                Waiting
  <2>2. \A d \in Command \ {c} : (Over(d)' <=> Over(d)) /\ (Waiting(d)' <=> Waiting(d))
                                   /\ (Published(d)' <=> Published(d))
    BY <1>3 DEF Over, Waiting, Published
  <2> QED
    BY <2>1, <2>2
<1>6. \A d \in Command :
         /\ \/ request'[d] = request[d] /\ response'[d] = response[d] /\ claim'[d] = claim[d]
            \/ d = c /\ Published(c)'
            \/ /\ request'[d] \in {request[d], 0} /\ response'[d] \in {response[d], None}
               /\ claim'[d] \in {claim[d], None} /\ cmd[c].at = "sweep" /\ cmd'[c].at = "sweep"
               /\ request[d] <= Seconds(cmd[c].started)
  <2>1. CASE Opens(c) \/ Judges(c) \/ GoesOn(c)
    BY <2>1 DEF Opens, Judges, GoesOn, files
  <2>2. CASE Sweeps(c)
    <3>1. CASE UNCHANGED files
      BY <3>1 DEF files
    <3>2. ASSUME NEW e, NEW suffix, RemoveFile(e, suffix), request[e] <= Seconds(cmd[c].started)
          PROVE  \A d \in Command :
                   \/ request'[d] = request[d] /\ response'[d] = response[d] /\ claim'[d] = claim[d]
                   \/ /\ request'[d] \in {request[d], 0} /\ response'[d] \in {response[d], None}
                      /\ claim'[d] \in {claim[d], None} /\ request[d] <= Seconds(cmd[c].started)
      BY <1>2, <3>2, SweptFiles
    <3> QED
      BY <2>2, <3>1, <3>2 DEF Sweeps, Moves
  <2>3. CASE Publishes(c)
    BY <1>2, <2>3 DEF Publishes, Moves, Published
  <2>4. CASE Takes(c)
    BY <1>2, <2>4 DEF Takes, Moves, Published, FilesTyped
  <2>5. CASE Reads(c)
    BY <1>2, <2>5 DEF Reads, Moves, Published, FilesTyped
  <2>6. CASE Leaves(c)
    <3>1. Published(c)'
      BY <2>6 DEF Leaves, Published
    <3>2. CASE UNCHANGED files
      BY <3>2 DEF files
    <3>3. ASSUME NEW suffix, RemoveFile(c, suffix)
          PROVE  \A d \in Command : d # c =>
                   request'[d] = request[d] /\ response'[d] = response[d] /\ claim'[d] = claim[d]
      BY <1>2, <3>3, SweptFiles
    <3> QED
      BY <2>6, <3>1, <3>2, <3>3 DEF Leaves
  <2> QED
    BY <1>1, <2>1, <2>2, <2>3, <2>4, <2>5, <2>6 DEF Steps
<1>7. Fresh'
  <2>1. ASSUME NEW d \in Command, ~ Published(d)'
        PROVE  request'[d] = 0 /\ response'[d] = None /\ claim'[d] = None /\ latest'[d] = None
    BY <1>3, <1>4, <1>5, <1>6, <2>1 DEF Fresh
  <2>2. ASSUME NEW w \in Window, window'[w].at \in {"clear", "write"}
        PROVE  Published(window[w].id)'
    <3>1. window[w].id \in Command
      BY <1>3, <2>2 DEF Inv, Typed
    <3> QED
      BY <1>3, <1>4, <1>5, <2>2, <3>1 DEF Fresh, Published
  <2> QED
    BY <2>1, <2>2 DEF Fresh
<1>8. \A d \in Command : Waiting(d) /\ ~ Over(d) => ~ request[d] <= Seconds(cmd[c].started)
  <2> SUFFICES ASSUME NEW d \in Command, Waiting(d), ~ Over(d)
               PROVE  ~ request[d] <= Seconds(cmd[c].started)
    OBVIOUS
  <2>1. /\ cmd[c].started \in Nat /\ cmd[d].deadline \in Nat /\ cmd[c].started <= now
        /\ request[d] = ExpirySeconds(cmd[d].deadline)
    BY <1>2, <1>4 DEF Process, Kept
  <2>2. cmd[c].started < cmd[d].deadline
    BY <1>2, <2>1 DEF Over
  <2> QED
    BY <2>1, <2>2, ExpiryAhead
<1>9. \A d \in Command \ {c} : Waiting(d) /\ ~ Over(d) =>
         request'[d] = request[d] /\ response'[d] = response[d] /\ claim'[d] = claim[d]
  BY <1>6, <1>8
<1>10. Waiting(c)' => ~ Opens(c) /\ ~ Sweeps(c) /\ ~ Leaves(c)
  BY DEF Waiting, Opens, Sweeps, Leaves, Moves
<1>11. Kept'
  <2>1. cmd'[c].started <= now
    BY <1>1, <1>2, <1>4 DEF Steps, Opens, Sweeps, Publishes, Takes, Reads, Judges, GoesOn, Leaves, Keeps,
                     Kept
  <2>2. Waiting(c)' /\ ~ Over(c)' => request'[c] = ExpirySeconds(cmd'[c].deadline)
    <3> SUFFICES ASSUME Waiting(c)', ~ Over(c)'
                 PROVE  request'[c] = ExpirySeconds(cmd'[c].deadline)
      OBVIOUS
    <3>1. CASE Publishes(c)
      BY <1>2, <3>1 DEF Publishes, Keeps, FilesTyped
    <3>2. CASE Takes(c) \/ Reads(c) \/ Judges(c) \/ GoesOn(c)
      <4>1. Keeps(c) /\ request' = request /\ Waiting(c)
        BY <3>2 DEF Takes, Reads, Judges, GoesOn, Moves, Waiting
      <4>2. ~ Over(c)
        BY <1>2, <1>3, <4>1 DEF Keeps, Over, Process
      <4> QED
        BY <1>4, <4>1, <4>2 DEF Kept, Keeps
    <3> QED
      BY <1>1, <1>10, <3>1, <3>2 DEF Steps
  <2>3. ASSUME NEW d \in Command \ {c}
        PROVE  /\ cmd'[d].started <= now'
               /\ Waiting(d)' /\ ~ Over(d)' => request'[d] = ExpirySeconds(cmd'[d].deadline)
    BY <1>3, <1>4, <1>5, <1>9, <2>3 DEF Kept
  <2> QED
    BY <1>3, <2>1, <2>2, <2>3 DEF Kept
<1>12. Held'
  <2>1. \A d \in Command \ {c} : claim'[d] # None /\ Waiting(d)' => cmd'[d].at = "claimed"
    BY <1>3, <1>4, <1>5, <1>6 DEF Held
  <2>2. claim'[c] # None /\ Waiting(c)' => cmd'[c].at = "claimed"
    <3> SUFFICES ASSUME claim'[c] # None, Waiting(c)'
                 PROVE  cmd'[c].at = "claimed"
      OBVIOUS
    <3>1. CASE Publishes(c)
      BY <1>4, <3>1 DEF Publishes, Moves, Fresh, Published
    <3>2. CASE Takes(c)
      BY <3>2 DEF Takes, Moves
    <3>3. CASE Reads(c)
      BY <1>2, <3>3 DEF Reads, FilesTyped
    <3>4. CASE Judges(c) \/ GoesOn(c)
      BY <1>4, <3>4 DEF Judges, GoesOn, Waiting, Held
    <3> QED
      BY <1>1, <1>10, <3>1, <3>2, <3>3, <3>4 DEF Steps
  <2>3. cmd'[c].answer # None => cmd'[c].at = "evaluate"
    BY <1>1, <1>4 DEF Steps, Opens, Sweeps, Publishes, Takes, Reads, Judges, GoesOn, Leaves, Moves, Held
  <2> QED
    BY <1>3, <1>4, <2>1, <2>2, <2>3 DEF Held
<1>13. NoAnswerLost'
  <2>1. ASSUME NEW d \in Command, Good(latest[d]), ~ Over(d)', cmd'[d].at \notin {"end", "over"}
        PROVE  latest[d] \in {response'[d], claim'[d], cmd'[d].answer}
    <3>1. Published(d) /\ latest[d] # None
      BY <1>4, <2>1 DEF Fresh, Good
    <3>2. CASE d # c
      <4>1. Waiting(d) /\ ~ Over(d)
        BY <1>2, <1>3, <1>5, <2>1, <3>1, <3>2 DEF Published, Waiting, Process
      <4> QED
        BY <1>3, <1>4, <1>9, <2>1, <3>2, <4>1 DEF NoAnswerLost, Waiting
    <3>3. CASE d = c
      <4>1. Waiting(c)' /\ ~ Opens(c) /\ ~ Sweeps(c) /\ ~ Leaves(c) /\ ~ Publishes(c)
        <5>1. Waiting(c)'
          BY <1>2, <1>5, <2>1, <3>1, <3>3 DEF Published, Waiting, Process
        <5>2. ~ Publishes(c)
          BY <3>1, <3>3 DEF Publishes, Moves, Published
        <5> QED
          BY <1>10, <5>1, <5>2
      <4>2. Takes(c) \/ Reads(c) \/ Judges(c) \/ GoesOn(c)
        BY <1>1, <4>1 DEF Steps
      <4>3. Waiting(c) /\ Keeps(c)
        BY <4>2 DEF Takes, Reads, Judges, GoesOn, Moves, Waiting
      <4>4. ~ Over(c)
        BY <1>2, <1>3, <2>1, <3>3, <4>3 DEF Keeps, Over, Process
      <4>5. latest[c] \in {response[c], claim[c], cmd[c].answer}
        BY <1>4, <2>1, <3>3, <4>3, <4>4 DEF NoAnswerLost, Waiting
      <4>6. CASE Takes(c)
        BY <1>2, <1>4, <3>1, <3>3, <4>3, <4>5, <4>6 DEF Takes, Moves, Held, FilesTyped
      <4>7. CASE Reads(c)
        BY <1>2, <1>4, <3>1, <3>3, <4>3, <4>5, <4>7 DEF Reads, Moves, Held, FilesTyped
      <4>8. CASE Judges(c)
        BY <2>1, <3>3, <4>4, <4>5, <4>8 DEF Judges
      <4>9. CASE GoesOn(c)
        BY <3>3, <4>5, <4>9 DEF GoesOn
      <4> QED
        BY <4>2, <4>6, <4>7, <4>8, <4>9
    <3> QED
      BY <3>2, <3>3
  <2>2. \A d \in Command : Good(latest[d])' <=> Good(latest[d])
    BY <1>3 DEF Good
  <2> QED
    BY <1>3, <2>1, <2>2 DEF NoAnswerLost
<1> QED
  BY <1>7, <1>11, <1>12, <1>13

(* The page writes for published requests only, and what it writes is found.  *)
LEMMA PageKeeps ==
    ASSUME Parameters, Inv, NEW w \in Window,
           Answer(w) \/ ClearRejected(w) \/ WriteResponse(w)
    PROVE  Fresh' /\ Kept' /\ Held' /\ NoAnswerLost'
<1>1. /\ now' = now /\ cmd' = cmd /\ request' = request /\ claim' = claim
      /\ \A x \in Window \ {w} : window'[x] = window[x]
  BY DEF Answer, ClearRejected, WriteResponse, files, Inv, Typed
<1>2. /\ Fresh /\ Kept /\ Held /\ NoAnswerLost
      /\ response \in [Command -> Answers] /\ latest \in [Command -> Answers] /\ None \notin Window
      /\ window[w].at \in {"clear", "write"} => window[w].id \in Command
  BY DEF Inv, Typed, FilesTyped, Parameters
<1>3. Kept'
  BY <1>1, <1>2 DEF Kept, Waiting, Over
<1>4. CASE Answer(w)
  <2>1. PICK c \in Command, kind \in {"good", "bad"} :
          /\ request[c] > Seconds(now)
          /\ window' = [window EXCEPT ![w] = [at |-> "clear", id |-> c, kind |-> kind]]
    BY <1>4 DEF Answer
  <2>2. window'[w].at = "clear" /\ window'[w].id = c /\ window[w].at = "new"
        /\ response' = response /\ latest' = latest
    BY <1>4, <2>1 DEF Answer, files, Inv, Typed
  <2>3. Published(c)
    <3>1. request[c] # 0
      BY <2>1 DEF Inv, Typed, Parameters, Seconds
    <3> QED
      BY <1>2, <3>1 DEF Fresh
  <2>4. Fresh'
    BY <1>1, <1>2, <2>2, <2>3 DEF Fresh, Published
  <2>5. \A d \in Command : latest[d] # None => latest[d] \in Window \ {w}
    BY <1>2, <2>2 DEF Held, Answers
  <2>6. Held'
    BY <1>1, <1>2, <2>2, <2>5 DEF Held, Waiting
  <2>7. NoAnswerLost'
    BY <1>1, <1>2, <2>2, <2>5 DEF NoAnswerLost, Good, Over
  <2> QED
    BY <1>3, <2>4, <2>6, <2>7
<1>5. CASE ClearRejected(w)
  <2>1. window'[w].at = "write" /\ window'[w].id = window[w].id /\ window'[w].kind = window[w].kind
        /\ window[w].at = "clear" /\ response' = response /\ latest' = latest
    BY <1>5 DEF ClearRejected, Inv, Typed
  <2>2. Fresh'
    BY <1>1, <1>2, <2>1 DEF Fresh, Published
  <2>3. Held' /\ NoAnswerLost'
    BY <1>1, <1>2, <2>1 DEF Held, NoAnswerLost, Good, Over, Waiting, Answers
  <2> QED
    BY <1>3, <2>2, <2>3
<1>6. CASE WriteResponse(w)
  <2> DEFINE c == window[w].id
  <2>1. /\ window'[w].at = "over" /\ window'[w].kind = window[w].kind
        /\ window[w].at = "write" /\ c \in Command
        /\ response' = [response EXCEPT ![c] = w] /\ latest' = [latest EXCEPT ![c] = w]
    BY <1>2, <1>6 DEF WriteResponse, Inv, Typed
  <2> HIDE DEF c
  <2>2. Published(c)
    BY <1>2, <2>1 DEF Fresh, c
  <2>3. /\ response'[c] = w /\ latest'[c] = w
        /\ \A d \in Command \ {c} : response'[d] = response[d] /\ latest'[d] = latest[d]
    BY <1>2, <2>1
  <2>4. Fresh'
    BY <1>1, <1>2, <2>1, <2>2, <2>3 DEF Fresh, Published
  <2>5. Held'
    BY <1>1, <1>2, <2>1, <2>3 DEF Held, Waiting, Answers
  <2>6. NoAnswerLost'
    <3>1. \A d \in Command \ {c} : Good(latest[d])' => Good(latest[d])
      BY <1>1, <1>2, <2>1, <2>3 DEF Good, Answers
    <3> QED
      BY <1>1, <1>2, <2>3, <3>1 DEF NoAnswerLost, Over
  <2> QED
    BY <1>3, <2>4, <2>5, <2>6
<1> QED
  BY <1>4, <1>5, <1>6

(* Every step keeps the invariant. *)
LEMMA InvNext ==
    ASSUME Parameters, Inv, [Next]_vars
    PROVE  Inv'
<1>1. Typed'
  BY TypedNext DEF Inv
<1>2. CASE Tick
  <2>1. UNCHANGED <<cmd, files, window, latest>> /\ now' = now + 1 /\ now \in Nat
    BY <1>2 DEF Tick, Inv, Typed, Parameters
  <2>2. \A c \in Command : ~ Over(c)' => ~ Over(c)
    BY <2>1 DEF Over, Inv, Typed, Process
  <2>3. Fresh' /\ Held'
    BY <2>1 DEF Inv, Fresh, Published, Held, Waiting, files
  <2>4. Kept'
    BY <2>1, <2>2 DEF Inv, Kept, Typed, Process, Waiting, files
  <2>5. NoAnswerLost'
    BY <2>1, <2>2 DEF Inv, NoAnswerLost, Good, files
  <2> QED
    BY <1>1, <2>3, <2>4, <2>5 DEF Inv
<1>3. CASE UNCHANGED vars
  BY <1>1, <1>3 DEF vars, files, Inv, Fresh, Kept, Held, NoAnswerLost, Published, Waiting, Over, Good
<1>4. ASSUME NEW c \in Command, Acts(c)
      PROVE  Inv'
  BY <1>1, <1>4, CommandKeeps DEF Inv
<1>5. ASSUME NEW w \in Window, Answer(w) \/ ClearRejected(w) \/ WriteResponse(w)
      PROVE  Inv'
  BY <1>1, <1>5, PageKeeps DEF Inv
<1> QED
  BY <1>2, <1>3, <1>4, <1>5 DEF Next, Acts

(* It holds at first. *)
LEMMA InvInit ==
    ASSUME Parameters, Init
    PROVE  Inv
<1>1. NewCommand \in Process /\ NewCommand.at = "new" /\ NewCommand.started = 0
      /\ NewCommand.answer = None
  BY DEF NewCommand, Process, Answers
<1>2. /\ cmd = [c \in Command |-> NewCommand] /\ now = 0 /\ faults = 0 /\ 0 \in 0 .. MaxTime
      /\ 0 \in 0 .. MaxFaults /\ None \in Answers
  BY DEF Init, Parameters, Answers
<1>3. Typed
  BY <1>1, <1>2 DEF Init, Typed, FilesTyped
<1>4. Fresh /\ Kept /\ Held /\ NoAnswerLost
  BY <1>1, <1>2 DEF Init, Fresh, Kept, Held, NoAnswerLost, Good, Waiting, Published
<1> QED
  BY <1>3, <1>4 DEF Inv

(* So it always holds. *)
LEMMA Invariance ==
    ASSUME Parameters
    PROVE  Spec => []Inv
<1>1. Init => Inv
  BY InvInit
<1>2. Inv /\ [Next]_vars => Inv'
  BY InvNext
<1> QED
  BY <1>1, <1>2, PTL DEF Spec

-----------------------------------------------------------------------------
(* The theorems *)

(* Every part of the state has its type, for any commands, windows, timeouts  *)
(* and bounds.                                                                *)
THEOREM TypeCorrect ==
    ASSUME Parameters
    PROVE  Spec => []TypeOK
<1>1. Inv => TypeOK
  BY DEF Inv, Typed, FilesTyped, TypeOK, Process, Answers
<1> QED
  BY <1>1, Invariance, PTL

(* The answer that the page wrote last is where its command finds it, as long *)
(* as the command can still count it, whichever sweeps, windows, signals and  *)
(* kills come between (readResponse, sweep, writeConsentResponse).            *)
THEOREM AnswersAreNotLost ==
    ASSUME Parameters
    PROVE  Spec => []NoAnswerLost
<1>1. Inv => NoAnswerLost
  BY DEF Inv
<1> QED
  BY <1>1, Invariance, PTL

-----------------------------------------------------------------------------
(***************************************************************************)
(* TokenCache.  An invocation reads the file without the lock and decides  *)
(* under it by what it read: TokenRead is why that is safe, entries of one *)
(* try hold one list, and what was read is the cache's, or an earlier      *)
(* try's.                                                                  *)
(***************************************************************************)

CONSTANTS Invocation, Life, MinRemaining, RelistInterval
VARIABLES github, cache, lastTry, lock, proc

T == INSTANCE TokenCache

\* What an entry of the file is, and an invocation.
Entry == [inst : 0 .. 2, expires : 0 .. MaxTime + Life, has : BOOLEAN,
          listedAt : T!Never .. MaxTime, triedAt : T!Never .. MaxTime]
TokenProcess == [at : {"start", "lock", "mint", "list", "look", "lock again", "list again",
                       "relist", "over"},
            entry : Entry, answer : {T!None, "yes", "no", "error"}]

\* The type invariant, of the whole state.
TokenTyped ==
    /\ now \in 0 .. MaxTime /\ lastTry \in T!Never .. MaxTime /\ github \in [inst : {1, 2}, has : BOOLEAN]
    /\ lock \in Invocation \cup {T!None} /\ cache \in Entry
    /\ proc \in [Invocation -> TokenProcess]

\* Where an invocation has the lock.
Locked == {"mint", "list", "list again", "relist"}

\* Who lists or mints has the lock.
LockHeld == \A i \in Invocation : proc[i].at \in Locked <=> lock = i

\* A list is never newer than the last try of it, nor that than the last of all.
Tried(entry) == entry.listedAt <= entry.triedAt
Times ==
    /\ lastTry <= now
    /\ Tried(cache) /\ cache.triedAt <= lastTry
    /\ \A i \in Invocation : Tried(proc[i].entry)

\* Entries of one try hold one list: what an invocation has read is the cache's
\* list, or that of an earlier try.
HasRead(p) ==
    /\ p.at \in {"look", "lock again"} =>
          /\ p.entry.triedAt <= cache.triedAt
          /\ p.entry.triedAt = cache.triedAt => p.entry.listedAt = cache.listedAt
    /\ p.at = "list again" =>
          /\ p.entry.triedAt = cache.triedAt /\ p.entry.listedAt = cache.listedAt
          /\ now - p.entry.triedAt >= RelistInterval
    /\ p.at = "relist" => p.entry.listedAt = cache.listedAt
    /\ p.at \in {"list", "relist"} => p.entry.triedAt = lastTry /\ cache.triedAt < lastTry
    /\ p.at = "list" => p.entry.listedAt = T!Never
TokenRead == \A i \in Invocation : HasRead(proc[i])

TokenInv == TokenTyped /\ LockHeld /\ Times /\ TokenRead

\* Who mints found no fresh token under the lock, and who lists has the one it found.
KeepsToken(p) ==
    /\ p.at \in {"mint", "list"} => ~ T!Fresh(cache)
    /\ p.at \in {"list again", "relist"} /\ T!Fresh(cache) =>
          p.entry.inst = cache.inst /\ p.entry.expires = cache.expires
TokenKept == \A i \in Invocation : KeepsToken(proc[i])

(* What an entry is. *)
LEMMA EntryIs ==
    ASSUME T!Parameters, NEW e \in Entry
    PROVE  /\ e.triedAt \in T!Never .. MaxTime /\ e.listedAt \in T!Never .. MaxTime
           /\ e.triedAt \in Int /\ e.listedAt \in Int /\ e.triedAt >= T!Never
           /\ e.inst \in 0 .. 2 /\ e.expires \in 0 .. MaxTime + Life /\ e.has \in BOOLEAN
BY DEF Entry, T!Never, T!Parameters

(* The last attempt of an entry is its try (listAttempt). *)
LEMMA AttemptIs ==
    ASSUME T!Parameters, NEW e \in Entry, Tried(e)
    PROVE  T!Attempt(e) = e.triedAt
<1>1. e.triedAt \in Int /\ e.listedAt \in Int
  BY DEF Entry, T!Never, T!Parameters
<1> QED BY <1>1 DEF T!Attempt, Tried

(* What the cache and what an invocation has read are. *)
LEMMA CacheIs ==
    ASSUME T!Parameters, TokenInv
    PROVE  /\ cache \in Entry /\ Tried(cache) /\ T!Attempt(cache) = cache.triedAt
           /\ cache.triedAt \in Int /\ cache.listedAt \in Int /\ now \in Int /\ lastTry \in Int
           /\ \A i \in Invocation :
                 /\ proc[i] \in TokenProcess /\ proc[i].entry \in Entry /\ Tried(proc[i].entry)
                 /\ T!Attempt(proc[i].entry) = proc[i].entry.triedAt
                 /\ proc[i].entry.triedAt \in Int /\ proc[i].entry.listedAt \in Int
<1>1. ASSUME NEW e \in Entry PROVE e.triedAt \in Int /\ e.listedAt \in Int
  BY DEF Entry, T!Never, T!Parameters
<1>2. cache \in Entry /\ Tried(cache) /\ now \in Int /\ lastTry \in Int
  BY DEF TokenInv, TokenTyped, Times, T!Never, T!Parameters
<1>3. ASSUME NEW i \in Invocation
      PROVE  proc[i] \in TokenProcess /\ proc[i].entry \in Entry /\ Tried(proc[i].entry)
  BY DEF TokenInv, TokenTyped, Times, TokenProcess
<1> QED BY <1>1, <1>2, <1>3, AttemptIs

\* Where an invocation goes on.
Onwards == {"lock", "mint", "list", "look", "lock again", "list again", "relist"}

(* A step of an invocation to another place. *)
LEMMA GotoIs ==
    ASSUME TokenTyped, NEW i \in Invocation, NEW e \in Entry, NEW s \in Onwards, T!Goto(i, s, e)
    PROVE  /\ proc' \in [Invocation -> TokenProcess]
           /\ proc'[i].at = s /\ proc'[i].entry = e
           /\ \A j \in Invocation : j # i => proc'[j] = proc[j]
<1>1. proc[i] \in TokenProcess
  BY DEF TokenTyped
<1>2. [proc[i] EXCEPT !.at = s, !.entry = e] \in TokenProcess
  BY <1>1 DEF TokenProcess, Onwards
<1>3. proc' = [proc EXCEPT ![i] = [proc[i] EXCEPT !.at = s, !.entry = e]]
  BY DEF T!Goto
<1>4. proc'[i] = [proc[i] EXCEPT !.at = s, !.entry = e]
  BY <1>3 DEF TokenTyped
<1> QED BY <1>1, <1>2, <1>3, <1>4 DEF TokenTyped, TokenProcess

(* The entry of no file. *)
LEMMA NoEntryIs ==
    ASSUME T!Parameters
    PROVE  T!NoEntry \in Entry /\ Tried(T!NoEntry) /\ T!NoEntry.listedAt = T!Never
BY DEF T!NoEntry, Entry, T!Parameters, T!Never, Tried

(* The end of an invocation, which drops its lock. *)
LEMMA AnswerIs ==
    ASSUME T!Parameters, TokenTyped, NEW i \in Invocation,
           NEW a \in {T!None, "yes", "no", "error"}, T!Answer(i, a)
    PROVE  /\ proc' \in [Invocation -> TokenProcess]
           /\ proc'[i].at = "over" /\ proc'[i].entry = T!NoEntry
           /\ \A j \in Invocation : j # i => proc'[j] = proc[j]
           /\ lock' = IF lock = i THEN T!None ELSE lock
<1>1. [at |-> "over", entry |-> T!NoEntry, answer |-> a] \in TokenProcess
  BY NoEntryIs DEF TokenProcess
<1> QED BY <1>1 DEF T!Answer, TokenTyped

\* A step of one invocation that is over with it.
LEMMA OverKeeps ==
    ASSUME T!Parameters, TokenInv, NEW i \in Invocation,
           NEW a \in {T!None, "yes", "no", "error"}, T!Answer(i, a),
           UNCHANGED <<now, github, cache, lastTry>>
    PROVE  TokenInv'
<1>0. /\ proc' \in [Invocation -> TokenProcess]
      /\ proc'[i].at = "over" /\ proc'[i].entry = T!NoEntry
      /\ \A j \in Invocation : j # i => proc'[j] = proc[j]
      /\ lock' = IF lock = i THEN T!None ELSE lock
  BY AnswerIs DEF TokenInv
<1>1. TokenTyped'
  BY <1>0 DEF TokenInv, TokenTyped
<1>2. LockHeld'
  BY <1>0 DEF TokenInv, LockHeld, Locked, T!Parameters
<1>3. Times'
  <2>1. ASSUME NEW j \in Invocation PROVE Tried(proc'[j].entry)
    BY <1>0, NoEntryIs DEF TokenInv, Times
  <2> QED BY <2>1 DEF TokenInv, Times, Tried
<1>4. TokenRead'
  BY <1>0 DEF TokenInv, TokenRead, HasRead
<1> QED BY <1>1, <1>2, <1>3, <1>4 DEF TokenInv

\* What an invocation that goes on has read.
HasSeen(s, e) ==
    /\ s \in {"look", "lock again"} =>
          /\ e.triedAt <= cache.triedAt
          /\ e.triedAt = cache.triedAt => e.listedAt = cache.listedAt
    /\ s = "list again" =>
          /\ e.triedAt = cache.triedAt /\ e.listedAt = cache.listedAt
          /\ now - e.triedAt >= RelistInterval

\* A step that leaves the cache and GitHub.
LEMMA GotoKeeps ==
    ASSUME T!Parameters, TokenInv, NEW i \in Invocation, NEW e \in Entry, Tried(e),
           NEW s \in {"lock", "mint", "look", "lock again", "list again"}, T!Goto(i, s, e),
           UNCHANGED <<now, github, cache, lastTry>>,
           lock' = lock \/ (lock = T!None /\ lock' = i) \/ (lock = i /\ lock' = T!None),
           s \in Locked <=> lock' = i,
           HasSeen(s, e)
    PROVE  TokenInv'
<1>0. /\ proc' \in [Invocation -> TokenProcess] /\ proc'[i].at = s /\ proc'[i].entry = e
      /\ \A j \in Invocation : j # i => proc'[j] = proc[j]
  <2>1. TokenTyped /\ s \in Onwards
    BY DEF TokenInv, Onwards
  <2> QED BY <2>1, GotoIs
<1>1. TokenTyped'
  BY <1>0 DEF TokenInv, TokenTyped
<1>2. LockHeld'
  <2> SUFFICES ASSUME NEW j \in Invocation PROVE (proc[j].at \in Locked <=> lock = j)'
    BY DEF LockHeld
  <2>1. CASE j = i
    <3>1. proc'[j].at = s
      BY <1>0, <2>1
    <3> QED BY <2>1, <3>1 DEF Locked
  <2>2. CASE j # i
    <3>1. proc'[j] = proc[j] /\ i # T!None /\ j # T!None
      BY <1>0, <2>2 DEF T!Parameters
    <3> QED BY <2>2, <3>1 DEF TokenInv, LockHeld, Locked
  <2> QED BY <2>1, <2>2
<1>3. Times'
  <2>1. ASSUME NEW j \in Invocation PROVE Tried(proc'[j].entry)
    BY <1>0 DEF TokenInv, Times
  <2> QED BY <2>1 DEF TokenInv, Times, Tried
<1>4. TokenRead'
  <2> SUFFICES ASSUME NEW j \in Invocation PROVE HasRead(proc[j])'
    BY DEF TokenRead
  <2>1. CASE j = i
    <3>1. proc'[j].at = s /\ proc'[j].entry = e /\ UNCHANGED <<now, cache, lastTry>>
      BY <1>0, <2>1
    <3>2. s # "list" /\ s # "relist"
      OBVIOUS
    <3> QED BY <3>1, <3>2 DEF HasRead, HasSeen
  <2>2. CASE j # i
    BY <1>0, <2>2 DEF TokenInv, TokenRead, HasRead
  <2> QED BY <2>1, <2>2
<1> QED BY <1>1, <1>2, <1>3, <1>4 DEF TokenInv

(* The cache's entry is read. *)
LEMMA CacheCopied ==
    ASSUME T!Parameters, TokenInv, NEW i \in Invocation, T!Goto(i, "look", cache),
           UNCHANGED <<now, github, cache, lastTry>>,
           (lock # i /\ lock' = lock) \/ (lock = i /\ lock' = T!None)
    PROVE  TokenInv'
<1>1. cache \in Entry /\ Tried(cache) /\ cache.triedAt <= cache.triedAt /\ i # T!None
  BY CacheIs DEF T!Parameters
<1>2. lock' # i /\ "look" \notin Locked
  BY <1>1 DEF Locked
<1>3. HasSeen("look", cache)
  BY <1>1 DEF HasSeen
<1> QED BY <1>1, <1>2, <1>3, GotoKeeps

(* The file is read without the lock. *)
LEMMA ReadTokenKeeps ==
    ASSUME T!Parameters, TokenInv, NEW i \in Invocation, T!ReadToken(i)
    PROVE  TokenInv'
<1>1. lock' = lock /\ lock # i /\ UNCHANGED <<now, github, cache, lastTry>>
  BY DEF T!ReadToken, T!At, TokenInv, LockHeld, Locked
<1>2. CASE T!Fresh(cache)
  BY <1>1, <1>2, CacheCopied DEF T!ReadToken
<1>3. CASE ~ T!Fresh(cache)
  BY <1>1, <1>3, NoEntryIs, GotoKeeps DEF T!ReadToken, Locked, HasSeen
<1> QED BY <1>2, <1>3

(* The lock is taken for a token, and the file read again. *)
LEMMA LockTokenKeeps ==
    ASSUME T!Parameters, TokenInv, NEW i \in Invocation, T!LockToken(i)
    PROVE  TokenInv'
<1>1. lock = T!None /\ lock # i /\ UNCHANGED <<now, github, cache, lastTry>>
  BY DEF T!LockToken, T!Parameters
<1>2. CASE T!Fresh(cache)
  BY <1>1, <1>2, CacheCopied DEF T!LockToken
<1>3. CASE ~ T!Fresh(cache)
  BY <1>1, <1>3, NoEntryIs, GotoKeeps DEF T!LockToken, Locked, HasSeen
<1> QED BY <1>2, <1>3

(* A token is minted, and its list is tried next. *)
LEMMA MintKeeps ==
    ASSUME T!Parameters, TokenInv, NEW i \in Invocation, T!Mint(i)
    PROVE  TokenInv'
<1> DEFINE e == [T!NoEntry EXCEPT !.inst = github.inst, !.expires = now + Life, !.triedAt = now]
<1>1. /\ e \in Entry /\ e.listedAt = T!Never /\ e.triedAt = now
  <2>1. github.inst \in 0 .. 2 /\ now + Life \in 0 .. MaxTime + Life /\ now \in T!Never .. MaxTime
    BY DEF TokenInv, TokenTyped, T!Parameters, T!Never
  <2> QED BY <2>1, NoEntryIs DEF T!NoEntry, Entry
<1>2. /\ T!At(i, "mint") /\ lastTry < now /\ lastTry' = now /\ T!Goto(i, "list", e)
      /\ UNCHANGED <<now, github, cache, lock>> /\ lock = i
  BY DEF T!Mint, T!At, TokenInv, LockHeld, Locked
<1> HIDE DEF e
<1>3. /\ proc' \in [Invocation -> TokenProcess] /\ proc'[i].at = "list" /\ proc'[i].entry = e
      /\ \A j \in Invocation : j # i => proc'[j] = proc[j] /\ proc[j].at \notin Locked
  BY <1>1, <1>2, GotoIs DEF TokenInv, LockHeld, Onwards
<1>4. TokenTyped'
  <2>1. now \in T!Never .. MaxTime
    BY DEF TokenInv, TokenTyped, T!Never, T!Parameters
  <2> QED BY <1>2, <1>3, <2>1 DEF TokenInv, TokenTyped
<1>5. LockHeld'
  BY <1>2, <1>3 DEF TokenInv, LockHeld, Locked
<1>6. Times'
  BY <1>1, <1>2, <1>3, CacheIs DEF TokenInv, Times, Tried, T!Never, TokenTyped
<1>7. TokenRead'
  <2> SUFFICES ASSUME NEW j \in Invocation PROVE HasRead(proc[j])'
    BY DEF TokenRead
  <2>1. CASE j = i
    <3>1. cache.triedAt < now
      BY <1>2, CacheIs DEF TokenInv, Times
    <3>2. /\ proc'[j].at = "list" /\ proc'[j].entry.triedAt = now /\ proc'[j].entry.listedAt = T!Never
          /\ lastTry' = now /\ cache' = cache
      BY <1>1, <1>2, <1>3, <2>1
    <3> QED BY <3>1, <3>2 DEF HasRead
  <2>2. CASE j # i
    BY <1>1, <1>2, <1>3, <2>2, CacheIs DEF TokenInv, TokenRead, HasRead, Locked
  <2> QED BY <2>1, <2>2
<1> QED BY <1>4, <1>5, <1>6, <1>7 DEF TokenInv

(* No token can be had: the cached one serves on, or the invocation fails. *)
LEMMA MintFailsKeeps ==
    ASSUME T!Parameters, TokenInv, NEW i \in Invocation, T!MintFails(i)
    PROVE  TokenInv'
<1>1. lock = i /\ i # T!None /\ UNCHANGED <<now, github, cache, lastTry>>
  BY DEF T!MintFails, T!Parameters, T!At, TokenInv, LockHeld, Locked
<1>2. CASE T!Serves(cache)
  BY <1>1, <1>2, CacheCopied DEF T!MintFails
<1>3. CASE ~ T!Serves(cache)
  BY <1>1, <1>3, OverKeeps DEF T!MintFails
<1> QED BY <1>2, <1>3

(* The cache is written with the list of the last try, or after it with the   *)
(* cache's own: all that was read before is of an earlier try.                *)
LEMMA WriteKeeps ==
    ASSUME T!Parameters, TokenInv, NEW i \in Invocation, proc[i].at \in {"list", "relist"},
           NEW e \in Entry, Tried(e), e.triedAt = lastTry, cache' = e,
           UNCHANGED <<now, github, lastTry>>,
           \/ \E a \in {"yes", "no", "error"} : T!Answer(i, a)
           \/ T!Goto(i, "look", e) /\ lock' = T!None
    PROVE  TokenInv'
<1>1. /\ lock = i /\ i # T!None /\ cache.triedAt < lastTry
      /\ \A j \in Invocation : j # i => proc[j].at \notin Locked
  BY DEF TokenInv, LockHeld, Locked, T!Parameters, TokenRead, HasRead
<1>2. /\ proc' \in [Invocation -> TokenProcess] /\ lock' = T!None
      /\ \/ proc'[i].at = "over" /\ proc'[i].entry = T!NoEntry
         \/ proc'[i].at = "look" /\ proc'[i].entry = e
      /\ \A j \in Invocation : j # i => proc'[j] = proc[j]
  <2>1. CASE \E a \in {"yes", "no", "error"} : T!Answer(i, a)
    <3>1. PICK a \in {T!None, "yes", "no", "error"} : T!Answer(i, a)
      BY <2>1
    <3> QED BY <1>1, <3>1, AnswerIs DEF TokenInv, T!Answer
  <2>2. CASE T!Goto(i, "look", e) /\ lock' = T!None
    BY <2>2, GotoIs DEF TokenInv, Onwards
  <2> QED BY <2>1, <2>2
<1>4. TokenTyped'
  BY <1>2 DEF TokenInv, TokenTyped
<1>5. LockHeld'
  BY <1>1, <1>2 DEF TokenInv, LockHeld, Locked, T!Parameters
<1>6. Times'
  BY <1>2, CacheIs, NoEntryIs DEF TokenInv, Times, Tried
<1>7. TokenRead'
  <2> SUFFICES ASSUME NEW j \in Invocation PROVE HasRead(proc[j])'
    BY DEF TokenRead
  <2>1. CASE j = i /\ proc'[i].at = "over"
    BY <2>1 DEF HasRead
  <2>2. CASE j = i /\ proc'[i].at = "look" /\ proc'[i].entry = e
    <3>1. e.triedAt <= e.triedAt
      BY EntryIs
    <3> QED BY <2>2, <3>1 DEF HasRead
  <2>3. CASE j # i
    <3>1. HasRead(proc[j]) /\ proc[j].at \notin Locked /\ proc'[j] = proc[j]
      BY <1>1, <1>2, <2>3 DEF TokenInv, TokenRead
    <3>2. /\ proc[j].entry.triedAt \in Int /\ cache.triedAt \in Int /\ lastTry \in Int
          /\ cache'.triedAt = lastTry /\ cache.triedAt < lastTry
      BY <1>1, CacheIs
    <3>3. proc[j].at \in {"look", "lock again"} => proc[j].entry.triedAt <= cache.triedAt
      BY <3>1 DEF HasRead
    <3>6. proc[j].entry.triedAt <= cache.triedAt =>
             proc[j].entry.triedAt <= lastTry /\ proc[j].entry.triedAt # lastTry
      BY <3>2
    <3>4. proc[j].at \in {"look", "lock again"} =>
             proc[j].entry.triedAt <= cache'.triedAt /\ proc[j].entry.triedAt # cache'.triedAt
      BY <3>2, <3>3, <3>6
    <3>5. proc[j].at \notin {"list again", "relist", "list"}
      BY <3>1 DEF Locked
    <3> QED BY <3>1, <3>4, <3>5 DEF HasRead
  <2> QED BY <1>2, <2>1, <2>2, <2>3
<1> QED BY <1>4, <1>5, <1>6, <1>7 DEF TokenInv

(* What a failed listing leaves: the list of the same installation. *)
LEMMA KeepListIs ==
    ASSUME T!Parameters, TokenInv, NEW e \in Entry, e.triedAt = lastTry, e.listedAt = T!Never
    PROVE  /\ T!KeepList(e) \in Entry /\ Tried(T!KeepList(e)) /\ T!KeepList(e).triedAt = lastTry
           /\ T!KeepList(e).inst = e.inst
           /\ cache.inst = e.inst => T!KeepList(e).listedAt = cache.listedAt
<1>1. e \in Entry /\ cache \in Entry
  BY CacheIs
<1>2. Tried(e)
  BY DEF Tried, T!Never, TokenInv, TokenTyped
<1>3. CASE cache.inst = e.inst /\ cache.listedAt # T!Never
  <2>1. T!KeepList(e) = [e EXCEPT !.has = cache.has, !.listedAt = cache.listedAt]
    BY <1>3 DEF T!KeepList
  <2>2. cache.listedAt <= lastTry
    BY CacheIs DEF TokenInv, Times, Tried
  <2> QED BY <1>1, <1>3, <2>1, <2>2 DEF Entry, Tried
<1>4. CASE ~ (cache.inst = e.inst /\ cache.listedAt # T!Never)
  BY <1>1, <1>2, <1>4 DEF T!KeepList
<1> QED BY <1>3, <1>4

(* What a listing leaves of the entry. *)
LEMMA ListedIs ==
    ASSUME T!Parameters, TokenInv, NEW e \in Entry, NEW has \in BOOLEAN, e.triedAt = lastTry,
           NEW n, n = [e EXCEPT !.has = has, !.listedAt = e.triedAt]
    PROVE  n \in Entry /\ Tried(n) /\ n.triedAt = lastTry /\ n.inst = e.inst /\ n.listedAt = lastTry
<1>1. lastTry <= lastTry
  BY CacheIs
<1> QED BY <1>1 DEF Entry, Tried

\* How a listing that was tried may end: the cache gets an entry of this try,
\* with a list that is no older, unless it is of another installation.
Written(i) ==
    \E e \in Entry :
        /\ Tried(e) /\ e.triedAt = lastTry /\ cache' = e
        /\ cache.inst = e.inst => e.listedAt >= cache.listedAt
        /\ \/ \E a \in {"yes", "no", "error"} : T!Answer(i, a)
           \/ T!Goto(i, "look", e) /\ lock' = T!None

(* A new token is stored with its list, or the write fails. *)
LEMMA StoreTokenWrites ==
    ASSUME T!Parameters, TokenInv, NEW i \in Invocation, T!StoreToken(i)
    PROVE  Written(i) \/ (UNCHANGED cache /\ T!Answer(i, "error"))
<1> DEFINE p == proc[i].entry
<1>1. p \in Entry /\ p.triedAt = lastTry /\ p.listedAt = T!Never /\ github.has \in BOOLEAN
      /\ cache.triedAt < lastTry /\ cache.listedAt <= cache.triedAt /\ cache.triedAt \in Int
      /\ cache.listedAt \in Int /\ lastTry \in Int
  BY CacheIs DEF T!StoreToken, T!At, TokenInv, TokenRead, HasRead, TokenTyped, Times, Tried
<1> DEFINE n(listed) == IF listed THEN [p EXCEPT !.has = github.has, !.listedAt = p.triedAt]
                             ELSE T!KeepList(p)
<1>2. PICK listed \in BOOLEAN :
         \/ /\ cache' = n(listed)
            /\ IF n(listed).listedAt = T!Never THEN T!Answer(i, "error")
               ELSE T!Goto(i, "look", n(listed)) /\ lock' = T!None
         \/ UNCHANGED cache /\ T!Answer(i, "error")
  BY DEF T!StoreToken
<1>3. /\ n(listed) \in Entry /\ Tried(n(listed)) /\ n(listed).triedAt = lastTry
      /\ cache.inst = n(listed).inst => n(listed).listedAt >= cache.listedAt
  <2>1. CASE listed = TRUE
    <3>1. n(listed) = [p EXCEPT !.has = github.has, !.listedAt = p.triedAt]
      BY <2>1
    <3> HIDE DEF n, p
    <3>2. lastTry >= cache.listedAt
      BY <1>1
    <3>3. /\ n(listed) \in Entry /\ Tried(n(listed)) /\ n(listed).triedAt = lastTry
          /\ n(listed).listedAt = lastTry
      BY <1>1, <3>1, ListedIs
    <3> QED BY <3>2, <3>3
  <2>2. CASE listed = FALSE
    <3>1. n(listed) = T!KeepList(p)
      BY <2>2
    <3> HIDE DEF n, p
    <3>2. cache.listedAt >= cache.listedAt
      BY <1>1
    <3> QED BY <1>1, <3>1, <3>2, KeepListIs
  <2> QED BY <2>1, <2>2
<1> HIDE DEF n
<1> QED BY <1>2, <1>3 DEF Written

(* A list is stored with its token, or the write fails. *)
LEMMA RelistWrites ==
    ASSUME T!Parameters, TokenInv, NEW i \in Invocation, T!Relist(i)
    PROVE  Written(i) \/ (UNCHANGED cache /\ T!Answer(i, "error"))
<1> DEFINE p == proc[i].entry
<1>1. p \in Entry /\ p.triedAt = lastTry /\ p.listedAt = cache.listedAt /\ github.has \in BOOLEAN
      /\ cache.triedAt < lastTry /\ cache.listedAt <= cache.triedAt /\ cache.triedAt \in Int
      /\ cache.listedAt \in Int /\ lastTry \in Int /\ Tried(p)
  BY CacheIs DEF T!Relist, T!At, TokenInv, TokenRead, HasRead, TokenTyped, Times, Tried
<1> DEFINE n(listed) == IF listed THEN [p EXCEPT !.has = github.has, !.listedAt = p.triedAt] ELSE p
<1>2. PICK listed \in BOOLEAN :
         \/ /\ cache' = n(listed)
            /\ T!Answer(i, IF n(listed).has THEN "yes" ELSE T!NotInstalled(n(listed)))
         \/ UNCHANGED cache /\ T!Answer(i, "error")
  BY DEF T!Relist
<1>3. /\ n(listed) \in Entry /\ Tried(n(listed)) /\ n(listed).triedAt = lastTry
      /\ n(listed).listedAt >= cache.listedAt
  <2>1. CASE listed = TRUE
    <3>1. n(listed) = [p EXCEPT !.has = github.has, !.listedAt = p.triedAt]
      BY <2>1
    <3> HIDE DEF n, p
    <3>2. lastTry >= cache.listedAt
      BY <1>1
    <3>3. /\ n(listed) \in Entry /\ Tried(n(listed)) /\ n(listed).triedAt = lastTry
          /\ n(listed).listedAt = lastTry
      BY <1>1, <3>1, ListedIs
    <3> QED BY <3>2, <3>3
  <2>2. CASE listed = FALSE
    BY <1>1, <2>2
  <2> QED BY <2>1, <2>2
<1>4. (IF n(listed).has THEN "yes" ELSE T!NotInstalled(n(listed))) \in {"yes", "no", "error"}
  BY DEF T!NotInstalled
<1> HIDE DEF n
<1> QED BY <1>2, <1>3, <1>4 DEF Written

(* So either write keeps the invariant. *)
LEMMA StoreKeeps ==
    ASSUME T!Parameters, TokenInv, NEW i \in Invocation, T!StoreToken(i) \/ T!Relist(i)
    PROVE  TokenInv'
<1>1. proc[i].at \in {"list", "relist"} /\ UNCHANGED <<now, github, lastTry>>
  BY DEF T!StoreToken, T!Relist, T!At
<1>2. CASE Written(i)
  BY <1>1, <1>2, WriteKeeps DEF Written
<1>3. CASE UNCHANGED cache /\ T!Answer(i, "error")
  BY <1>1, <1>3, OverKeeps
<1> QED BY <1>2, <1>3, StoreTokenWrites, RelistWrites

(* The repository is on the list, or the list is to be made again. *)
LEMMA LookKeeps ==
    ASSUME T!Parameters, TokenInv, NEW i \in Invocation, T!Look(i)
    PROVE  TokenInv'
<1>1. /\ lock # i /\ UNCHANGED <<now, github, cache, lastTry>>
      /\ \/ \E a \in {T!None, "yes", "no", "error"} : T!Answer(i, a)
         \/ T!Goto(i, "lock again", proc[i].entry) /\ lock' = lock
  BY DEF T!Look, T!At, TokenInv, LockHeld, Locked, T!NotInstalled
<1>2. CASE T!Goto(i, "lock again", proc[i].entry) /\ lock' = lock
  <2>1. /\ proc[i].entry.triedAt <= cache.triedAt
        /\ proc[i].entry.triedAt = cache.triedAt => proc[i].entry.listedAt = cache.listedAt
    BY DEF T!Look, T!At, TokenInv, TokenRead, HasRead, HasRead
  <2>2. proc[i].entry \in Entry /\ Tried(proc[i].entry)
    BY CacheIs
  <2> QED BY <1>1, <1>2, <2>1, <2>2, GotoKeeps DEF Locked, HasSeen
<1> QED BY <1>1, <1>2, OverKeeps

(* What is kept of another's entry has the cache's list, and its try. *)
LEMMA NewerIs ==
    ASSUME T!Parameters, TokenInv, NEW p \in Entry, Tried(p), p.triedAt <= cache.triedAt,
           p.triedAt = cache.triedAt => p.listedAt = cache.listedAt
    PROVE  /\ T!Newer(p) \in Entry /\ Tried(T!Newer(p))
           /\ T!Newer(p).triedAt = cache.triedAt /\ T!Newer(p).listedAt = cache.listedAt
<1>1. /\ T!Attempt(p) = p.triedAt /\ p.triedAt \in Int /\ p.triedAt >= T!Never /\ cache \in Entry
      /\ Tried(cache) /\ T!Attempt(cache) = cache.triedAt /\ cache.triedAt \in Int
  BY CacheIs, AttemptIs, EntryIs
<1> DEFINE m == [p EXCEPT !.has = cache.has, !.listedAt = cache.listedAt, !.triedAt = cache.triedAt]
<1>3. m \in Entry /\ Tried(m) /\ m.triedAt = cache.triedAt /\ m.listedAt = cache.listedAt
  BY <1>1 DEF Entry, Tried
<1>4. \/ T!Newer(p) = cache \/ T!Newer(p) = m
      \/ T!Newer(p) = p /\ (cache = T!NoEntry \/ ~ (cache.triedAt > p.triedAt))
  BY <1>1 DEF T!Newer
<1> HIDE DEF m
<1>5. ASSUME T!Newer(p) = p, cache = T!NoEntry \/ ~ (cache.triedAt > p.triedAt)
      PROVE  p.triedAt = cache.triedAt
  <2>1. CASE cache = T!NoEntry
    <3>1. cache.triedAt = T!Never
      BY <2>1 DEF T!NoEntry
    <3> QED BY <1>1, <3>1
  <2>2. CASE ~ (cache.triedAt > p.triedAt)
    BY <1>1, <2>2
  <2> QED BY <1>5, <2>1, <2>2
<1> QED BY <1>1, <1>3, <1>4, <1>5

(* The lock is taken for a list, and the file read again. *)
LEMMA LockListKeeps ==
    ASSUME T!Parameters, TokenInv, NEW i \in Invocation, T!LockList(i)
    PROVE  TokenInv'
<1> DEFINE e == T!Newer(proc[i].entry)
<1>1. /\ e \in Entry /\ Tried(e) /\ e.triedAt = cache.triedAt /\ e.listedAt = cache.listedAt
      /\ T!Attempt(e) = e.triedAt /\ e.triedAt \in Int
  <2>1. /\ proc[i].entry \in Entry /\ Tried(proc[i].entry) /\ proc[i].entry.triedAt <= cache.triedAt
        /\ proc[i].entry.triedAt = cache.triedAt => proc[i].entry.listedAt = cache.listedAt
    BY CacheIs DEF T!LockList, T!At, TokenInv, TokenRead, HasRead
  <2> HIDE DEF e
  <2>2. e \in Entry /\ Tried(e) /\ e.triedAt = cache.triedAt /\ e.listedAt = cache.listedAt
    BY <2>1, NewerIs DEF e
  <2> QED BY <2>2, AttemptIs, EntryIs
<1>2. /\ lock = T!None /\ lock # i /\ UNCHANGED <<now, github, cache, lastTry>>
      /\ \/ \E a \in {T!None, "yes", "no", "error"} : T!Answer(i, a)
         \/ /\ ~ (now - T!Attempt(e) < RelistInterval) /\ T!Goto(i, "list again", e) /\ lock' = i
  BY DEF T!LockList, T!Parameters, T!NotInstalled
<1> HIDE DEF e
<1>3. CASE ~ (now - T!Attempt(e) < RelistInterval) /\ T!Goto(i, "list again", e) /\ lock' = i
  <2>1. now \in Int /\ RelistInterval \in Int
    BY CacheIs DEF T!Parameters
  <2>2. now - e.triedAt >= RelistInterval
    <3>1. ~ (now - e.triedAt < RelistInterval) /\ e.triedAt \in Int
      BY <1>1, <1>3
    <3> QED BY <2>1, <3>1
  <2> QED BY <1>1, <1>2, <1>3, <2>2, GotoKeeps DEF Locked, HasSeen
<1> QED BY <1>2, <1>3, OverKeeps

(* A listing is tried, under the lock. *)
LEMMA TryListKeeps ==
    ASSUME T!Parameters, TokenInv, NEW i \in Invocation, T!TryList(i)
    PROVE  TokenInv'
<1> DEFINE p == proc[i].entry
           e == [p EXCEPT !.triedAt = now]
<1>1. p \in Entry /\ Tried(p) /\ p.listedAt = cache.listedAt /\ p.triedAt = cache.triedAt
  BY CacheIs DEF T!TryList, T!At, TokenInv, TokenRead, HasRead, HasRead
<1>2. /\ T!At(i, "list again") /\ lastTry < now /\ lastTry' = now /\ T!Goto(i, "relist", e)
      /\ UNCHANGED <<now, github, cache, lock>> /\ lock = i
  BY DEF T!TryList, T!At, TokenInv, LockHeld, Locked
<1>0. e \in Entry /\ Tried(e) /\ e.triedAt = now /\ e.listedAt = cache.listedAt
  <2>1. now \in T!Never .. MaxTime /\ cache.listedAt <= now
    BY CacheIs DEF TokenInv, TokenTyped, Times, Tried, T!Never, T!Parameters
  <2> HIDE DEF p
  <2> QED BY <1>1, <2>1 DEF Entry, Tried
<1> HIDE DEF e, p
<1>3. /\ proc' \in [Invocation -> TokenProcess] /\ proc'[i].at = "relist" /\ proc'[i].entry = e
      /\ \A j \in Invocation : j # i => proc'[j] = proc[j] /\ proc[j].at \notin Locked
  BY <1>0, <1>2, GotoIs DEF TokenInv, LockHeld, Onwards
<1>8. cache.triedAt < now
  <2>1. cache.triedAt <= lastTry /\ lastTry < now
    BY <1>2 DEF TokenInv, Times
  <2> QED BY <2>1, CacheIs
<1>4. TokenTyped'
  <2>1. now \in T!Never .. MaxTime
    BY DEF TokenInv, TokenTyped, T!Never, T!Parameters
  <2> QED BY <1>2, <1>3, <2>1 DEF TokenInv, TokenTyped
<1>5. LockHeld'
  BY <1>2, <1>3 DEF TokenInv, LockHeld, Locked
<1>6. Times'
  <2>1. cache.triedAt <= now /\ now <= now
    BY <1>8, CacheIs
  <2>2. cache' = cache /\ now' = now /\ lastTry' = now
    BY <1>2
  <2> QED BY <1>0, <1>3, <2>1, <2>2 DEF TokenInv, Times, Tried
<1>7. TokenRead'
  <2> SUFFICES ASSUME NEW j \in Invocation PROVE HasRead(proc[j])'
    BY DEF TokenRead
  <2>1. CASE j = i
    <3>2. /\ proc'[j].at = "relist" /\ proc'[j].entry.triedAt = now
          /\ proc'[j].entry.listedAt = cache.listedAt /\ lastTry' = now /\ cache' = cache
      BY <1>0, <1>2, <1>3, <2>1
    <3> QED BY <1>8, <3>2 DEF HasRead
  <2>2. CASE j # i
    BY <1>0, <1>2, <1>3, <2>2, CacheIs DEF TokenInv, TokenRead, HasRead, Locked
  <2> QED BY <2>1, <2>2
<1> QED BY <1>4, <1>5, <1>6, <1>7 DEF TokenInv

(* The clock and the account at GitHub leave the cache. *)
LEMMA WorldKeeps ==
    ASSUME T!Parameters, TokenInv, T!Account \/ T!Tick \/ UNCHANGED T!vars
    PROVE  TokenInv'
<1>1. UNCHANGED <<cache, lock, proc, lastTry>> /\ now' \in 0 .. MaxTime /\ now' >= now
      /\ github' \in [inst : {1, 2}, has : BOOLEAN]
  <2>1. CASE T!Account
    <3>1. now' = now /\ now >= now /\ now \in 0 .. MaxTime /\ UNCHANGED <<cache, lock, proc, lastTry>>
      BY <2>1, CacheIs DEF T!Account, TokenInv, TokenTyped
    <3>2. github' = [github EXCEPT !.has = TRUE] \/ github' = [github EXCEPT !.inst = 2]
      BY <2>1 DEF T!Account
    <3>3. github \in [inst : {1, 2}, has : BOOLEAN]
      BY DEF TokenInv, TokenTyped
    <3> QED BY <3>1, <3>2, <3>3
  <2>2. CASE T!Tick
    BY <2>2 DEF T!Tick, TokenInv, TokenTyped, T!Parameters
  <2>3. CASE UNCHANGED T!vars
    BY <2>3, CacheIs DEF T!vars, TokenInv, TokenTyped
  <2> QED BY <2>1, <2>2, <2>3
<1>2. TokenTyped' /\ LockHeld' /\ Times'
  BY <1>1, CacheIs DEF TokenInv, TokenTyped, LockHeld, Times
<1>3. TokenRead'
  <2> SUFFICES ASSUME NEW j \in Invocation PROVE HasRead(proc[j])'
    BY DEF TokenRead
  <2>1. HasRead(proc[j]) /\ proc[j].entry.triedAt \in Int /\ now \in Int /\ now' \in Int
        /\ RelistInterval \in Int
    BY <1>1, CacheIs DEF TokenInv, TokenRead, T!Parameters
  <2>2. now - proc[j].entry.triedAt >= RelistInterval => now' - proc[j].entry.triedAt >= RelistInterval
    BY <1>1, <2>1
  <2> QED BY <1>1, <2>1, <2>2 DEF HasRead
<1> QED BY <1>2, <1>3 DEF TokenInv

(* The next invocation starts with nothing. *)
LEMMA AgainKeeps ==
    ASSUME T!Parameters, TokenInv, NEW i \in Invocation, T!Again(i)
    PROVE  TokenInv'
<1> DEFINE n == [at |-> "start", entry |-> T!NoEntry, answer |-> T!None]
<1>1. n \in TokenProcess /\ n.at = "start" /\ n.entry = T!NoEntry
  BY NoEntryIs DEF TokenProcess
<1>2. /\ proc' = [proc EXCEPT ![i] = n] /\ proc[i].at = "over"
      /\ UNCHANGED <<now, github, cache, lock, lastTry>>
  BY DEF T!Again, T!At
<1> HIDE DEF n
<1>3. /\ proc' \in [Invocation -> TokenProcess] /\ proc'[i] = n
      /\ \A j \in Invocation : j # i => proc'[j] = proc[j]
  BY <1>1, <1>2 DEF TokenInv, TokenTyped
<1>4. TokenTyped' /\ LockHeld'
  BY <1>1, <1>2, <1>3 DEF TokenInv, TokenTyped, LockHeld, Locked
<1>5. Times'
  BY <1>1, <1>2, <1>3, NoEntryIs DEF TokenInv, Times
<1>6. TokenRead'
  BY <1>1, <1>2, <1>3 DEF TokenInv, TokenRead, HasRead
<1> QED BY <1>4, <1>5, <1>6 DEF TokenInv

(* A kill ends an invocation, and the kernel drops its lock. *)
LEMMA KillKeeps ==
    ASSUME T!Parameters, TokenInv, NEW i \in Invocation, T!Kill(i)
    PROVE  TokenInv'
BY OverKeeps DEF T!Kill

(* Every step keeps the invariant. *)
LEMMA TokenInvNext ==
    ASSUME T!Parameters, TokenInv, [T!Next]_T!vars
    PROVE  TokenInv'
<1>1. ASSUME NEW i \in Invocation,
             \/ T!ReadToken(i) \/ T!LockToken(i) \/ T!Mint(i) \/ T!MintFails(i) \/ T!StoreToken(i)
             \/ T!Look(i) \/ T!LockList(i) \/ T!TryList(i) \/ T!Relist(i) \/ T!Kill(i) \/ T!Again(i)
      PROVE  TokenInv'
  BY <1>1, ReadTokenKeeps, LockTokenKeeps, MintKeeps, MintFailsKeeps, StoreKeeps, LookKeeps,
     LockListKeeps, TryListKeeps, KillKeeps, AgainKeeps
<1> QED BY <1>1, WorldKeeps DEF T!Next

(* The invariant holds at first. *)
LEMMA TokenInvInit ==
    ASSUME T!Parameters, T!Init
    PROVE  TokenInv
<1>1. \A i \in Invocation : proc[i] = [at |-> "start", entry |-> T!NoEntry, answer |-> T!None]
  BY DEF T!Init
<1>2. [at |-> "start", entry |-> T!NoEntry, answer |-> T!None] \in TokenProcess
  BY NoEntryIs DEF TokenProcess
<1>3. TokenTyped
  BY <1>2, NoEntryIs DEF T!Init, TokenTyped, T!Parameters, T!Never
<1>4. LockHeld
  BY <1>1 DEF T!Init, LockHeld, Locked, T!Parameters
<1>5. Times
  BY <1>1, NoEntryIs DEF T!Init, Times, T!NoEntry, T!Never, Tried
<1>6. TokenRead
  <2> SUFFICES ASSUME NEW i \in Invocation PROVE HasRead(proc[i])
    BY DEF TokenRead
  <2>1. proc[i].at = "start"
    BY <1>1
  <2> QED BY <2>1 DEF HasRead
<1> QED BY <1>3, <1>4, <1>5, <1>6 DEF TokenInv

(* So it always holds. *)
LEMMA TokenInvariance ==
    ASSUME T!Parameters
    PROVE  T!Spec => []TokenInv
<1>1. T!Init => TokenInv
  BY TokenInvInit
<1>2. TokenInv /\ [T!Next]_T!vars => TokenInv'
  BY TokenInvNext
<1> QED BY <1>1, <1>2, PTL DEF T!Spec

(* A token that is in the file still is no fresher later. *)
LEMMA FreshBefore ==
    ASSUME T!Parameters, TokenInv, UNCHANGED cache, now' = now \/ now' = now + 1, T!Fresh(cache)'
    PROVE  T!Fresh(cache)
<1>1. cache.expires \in Int /\ now \in Int /\ MinRemaining \in Int
  BY CacheIs, EntryIs DEF T!Parameters
<1> QED BY <1>1 DEF T!Fresh

(* A step that leaves the file, and who has the lock what it knows. *)
LEMMA StayKept ==
    ASSUME T!Parameters, TokenInv, TokenKept, UNCHANGED cache, now' = now \/ now' = now + 1,
           \A j \in Invocation :
              \/ proc'[j] = proc[j]
              \/ proc'[j].at \notin Locked
              \/ UNCHANGED now /\ KeepsToken(proc'[j])
    PROVE  TokenKept'
<1> SUFFICES ASSUME NEW j \in Invocation PROVE KeepsToken(proc[j])'
  BY DEF TokenKept
<1>1. KeepsToken(proc[j])
  BY DEF TokenKept
<1>2. T!Fresh(cache)' => T!Fresh(cache)
  BY FreshBefore
<1>3. CASE proc'[j] = proc[j]
  BY <1>1, <1>2, <1>3 DEF KeepsToken
<1>4. CASE proc'[j].at \notin Locked
  BY <1>4 DEF KeepsToken, Locked
<1>5. CASE UNCHANGED now /\ KeepsToken(proc'[j])
  BY <1>2, <1>5 DEF KeepsToken
<1> QED BY <1>3, <1>4, <1>5

(* An invocation's step that leaves the file. *)
LEMMA StepKept ==
    ASSUME T!Parameters, TokenInv, TokenKept, NEW i \in Invocation, UNCHANGED <<now, cache>>,
           NEW e \in Entry, NEW s \in Onwards,
           \/ \E a \in {T!None, "yes", "no", "error"} : T!Answer(i, a)
           \/ T!Goto(i, s, e),
           s \in {"mint", "list"} => ~ T!Fresh(cache),
           s \in {"list again", "relist"} /\ T!Fresh(cache) =>
              e.inst = cache.inst /\ e.expires = cache.expires
    PROVE  TokenKept'
<1>1. CASE \E a \in {T!None, "yes", "no", "error"} : T!Answer(i, a)
  <2>1. proc'[i].at = "over" /\ \A j \in Invocation : j # i => proc'[j] = proc[j]
    BY <1>1, AnswerIs DEF TokenInv
  <2> QED BY <2>1, StayKept DEF Locked
<1>2. CASE T!Goto(i, s, e)
  <2>1. /\ proc'[i].at = s /\ proc'[i].entry = e
        /\ \A j \in Invocation : j # i => proc'[j] = proc[j]
    BY <1>2, GotoIs DEF TokenInv
  <2>2. KeepsToken(proc'[i])
    BY <2>1 DEF KeepsToken
  <2> QED BY <2>1, <2>2, StayKept
<1> QED BY <1>1, <1>2

(* A token is minted or a list made when that was found under the lock. *)
LEMMA ActionsKept ==
    ASSUME T!Parameters, TokenInv, TokenKept, NEW i \in Invocation,
           \/ T!ReadToken(i) \/ T!LockToken(i) \/ T!Mint(i) \/ T!MintFails(i)
           \/ T!Look(i) \/ T!LockList(i) \/ T!TryList(i) \/ T!Kill(i)
    PROVE  TokenKept'
<1>1. UNCHANGED <<now, cache>> /\ cache \in Entry /\ T!NoEntry \in Entry /\ proc[i].entry \in Entry
  BY CacheIs, NoEntryIs DEF T!ReadToken, T!LockToken, T!Mint, T!MintFails, T!Look, T!LockList,
                            T!TryList, T!Kill
<1>2. CASE T!ReadToken(i) \/ T!LockToken(i) \/ T!MintFails(i) \/ T!Look(i) \/ T!Kill(i)
  <2>1. \/ \E a \in {T!None, "yes", "no", "error"} : T!Answer(i, a)
        \/ \E e \in Entry, s \in {"look", "lock", "lock again"} : T!Goto(i, s, e)
        \/ T!Goto(i, "mint", T!NoEntry) /\ ~ T!Fresh(cache)
    BY <1>1, <1>2 DEF T!ReadToken, T!LockToken, T!MintFails, T!Look, T!Kill, T!NotInstalled
  <2>2. CASE \E a \in {T!None, "yes", "no", "error"} : T!Answer(i, a)
    <3>1. "look" \in Onwards /\ "look" \notin {"mint", "list", "list again", "relist"}
      BY DEF Onwards
    <3> QED BY <1>1, <2>2, <3>1, StepKept
  <2>3. ASSUME NEW e \in Entry, NEW s \in {"look", "lock", "lock again"}, T!Goto(i, s, e)
        PROVE  TokenKept'
    <3>1. s \in Onwards /\ s \notin {"mint", "list", "list again", "relist"}
      BY DEF Onwards
    <3> QED BY <1>1, <2>3, <3>1, StepKept
  <2>4. CASE T!Goto(i, "mint", T!NoEntry) /\ ~ T!Fresh(cache)
    <3>1. "mint" \in Onwards /\ "mint" \notin {"list again", "relist"}
      BY DEF Onwards
    <3> QED BY <1>1, <2>4, <3>1, StepKept
  <2> QED BY <2>1, <2>2, <2>3, <2>4
<1>3. CASE T!Mint(i)
  <2> DEFINE e == [T!NoEntry EXCEPT !.inst = github.inst, !.expires = now + Life, !.triedAt = now]
  <2>1. e \in Entry
    <3>1. github.inst \in 0 .. 2 /\ now + Life \in 0 .. MaxTime + Life /\ now \in T!Never .. MaxTime
      BY DEF TokenInv, TokenTyped, T!Parameters, T!Never
    <3> QED BY <3>1, NoEntryIs DEF T!NoEntry, Entry
  <2>2. T!Goto(i, "list", e) /\ ~ T!Fresh(cache)
    BY <1>3 DEF T!Mint, T!At, TokenKept, KeepsToken
  <2>3. "list" \in Onwards /\ "list" \notin {"list again", "relist"}
    BY DEF Onwards
  <2> HIDE DEF e
  <2> QED BY <1>1, <2>1, <2>2, <2>3, StepKept
<1>4. CASE T!LockList(i)
  <2> DEFINE e == T!Newer(proc[i].entry)
  <2>1. e \in Entry
    BY <1>4, CacheIs, NewerIs DEF T!LockList, T!At, TokenInv, TokenRead, HasRead
  <2>2. T!Fresh(cache) => e = cache
    BY DEF T!Newer
  <2>3. \/ \E a \in {T!None, "yes", "no", "error"} : T!Answer(i, a)
        \/ T!Goto(i, "list again", e)
    BY <1>4 DEF T!LockList, T!NotInstalled
  <2>4. "list again" \in Onwards /\ "list again" \notin {"mint", "list"}
    BY DEF Onwards
  <2> HIDE DEF e
  <2> QED BY <1>1, <2>1, <2>2, <2>3, <2>4, StepKept
<1>5. CASE T!TryList(i)
  <2> DEFINE e == [proc[i].entry EXCEPT !.triedAt = now]
  <2>1. e \in Entry /\ e.inst = proc[i].entry.inst /\ e.expires = proc[i].entry.expires
    <3>1. now \in T!Never .. MaxTime
      BY DEF TokenInv, TokenTyped, T!Never, T!Parameters
    <3> QED BY <1>1, <3>1 DEF Entry
  <2>2. T!Goto(i, "relist", e) /\ T!At(i, "list again")
    BY <1>5 DEF T!TryList
  <2>3. T!Fresh(cache) => proc[i].entry.inst = cache.inst /\ proc[i].entry.expires = cache.expires
    BY <2>2 DEF T!At, TokenKept, KeepsToken
  <2>4. "relist" \in Onwards /\ "relist" \notin {"mint", "list"}
    BY DEF Onwards
  <2> HIDE DEF e
  <2> QED BY <1>1, <2>1, <2>2, <2>3, <2>4, StepKept
<1> QED BY <1>2, <1>3, <1>4, <1>5

(* After a write nobody has the lock. *)
LEMMA WritesKept ==
    ASSUME T!Parameters, TokenInv, TokenKept, NEW i \in Invocation, T!StoreToken(i) \/ T!Relist(i)
    PROVE  TokenKept'
<1>1. lock' = T!None
  BY DEF T!StoreToken, T!Relist, T!Answer, T!At, TokenInv, LockHeld, Locked
<1>2. TokenInv'
  BY StoreKeeps
<1>3. \A j \in Invocation : proc'[j].at \notin Locked
  BY <1>1, <1>2 DEF TokenInv, LockHeld, T!Parameters
<1> QED BY <1>3 DEF TokenKept, KeepsToken, Locked

(* Every step keeps that. *)
LEMMA KeptNext ==
    ASSUME T!Parameters, TokenInv, TokenKept, [T!Next]_T!vars
    PROVE  TokenKept'
<1>1. ASSUME NEW i \in Invocation, T!Again(i) PROVE TokenKept'
  <2>1. /\ UNCHANGED <<now, cache>> /\ proc'[i].at = "start"
        /\ \A j \in Invocation : j # i => proc'[j] = proc[j]
    BY <1>1 DEF T!Again, TokenInv, TokenTyped
  <2> QED BY <2>1, StayKept DEF Locked
<1>2. CASE T!Account \/ T!Tick \/ UNCHANGED T!vars
  <2>1. UNCHANGED <<cache, proc>> /\ (now' = now \/ now' = now + 1)
    BY <1>2 DEF T!Account, T!Tick, T!vars
  <2> QED BY <2>1, StayKept
<1>3. ASSUME NEW i \in Invocation,
             \/ T!ReadToken(i) \/ T!LockToken(i) \/ T!Mint(i) \/ T!MintFails(i)
             \/ T!Look(i) \/ T!LockList(i) \/ T!TryList(i) \/ T!Kill(i)
      PROVE  TokenKept'
  BY <1>3, ActionsKept
<1>4. ASSUME NEW i \in Invocation, T!StoreToken(i) \/ T!Relist(i) PROVE TokenKept'
  BY <1>4, WritesKept
<1> QED BY <1>1, <1>2, <1>3, <1>4 DEF T!Next

(* So it always holds, too. *)
LEMMA KeptInvariance ==
    ASSUME T!Parameters
    PROVE  T!Spec => []TokenKept
<1>1. T!Init => TokenKept
  <2> SUFFICES ASSUME T!Init, NEW i \in Invocation PROVE KeepsToken(proc[i])
    BY DEF TokenKept
  <2>1. proc[i].at = "start"
    BY DEF T!Init
  <2> QED BY <2>1 DEF KeepsToken
<1>2. TokenInv /\ TokenKept /\ [T!Next]_T!vars => TokenKept'
  BY KeptNext
<1> QED BY <1>1, <1>2, TokenInvariance, PTL DEF T!Spec

(* What is written beside a fresh token is that token. *)
LEMMA TokenStays ==
    ASSUME T!Parameters, TokenInv, TokenKept, NEW i \in Invocation,
           T!StoreToken(i) \/ T!Relist(i), T!Fresh(cache)
    PROVE  cache'.inst = cache.inst /\ cache'.expires = cache.expires
<1>1. KeepsToken(proc[i]) /\ proc[i].entry \in Entry
  BY CacheIs DEF TokenKept
<1>2. ~ T!StoreToken(i)
  BY <1>1 DEF T!StoreToken, T!At, KeepsToken
<1>3. proc[i].entry.inst = cache.inst /\ proc[i].entry.expires = cache.expires
  BY <1>1, <1>2 DEF T!Relist, T!At, KeepsToken
<1>4. ASSUME NEW listed \in BOOLEAN,
             NEW e, e = IF listed THEN [proc[i].entry EXCEPT !.has = github.has,
                                                             !.listedAt = proc[i].entry.triedAt]
                        ELSE proc[i].entry
      PROVE  e.inst = cache.inst /\ e.expires = cache.expires
  BY <1>1, <1>3, <1>4 DEF Entry
<1> QED BY <1>2, <1>4 DEF T!Relist

(* So a step moves the cache forward. *)
LEMMA StepForward ==
    ASSUME T!Parameters, TokenInv, TokenKept, [T!Next]_T!vars
    PROVE  T!ForwardStep
<1>1. (cache'.inst = cache.inst) => cache'.listedAt >= cache.listedAt /\ cache'.triedAt >= cache.triedAt
  <2>1. cache.triedAt >= cache.triedAt /\ cache.listedAt >= cache.listedAt
    BY CacheIs
  <2>2. CASE cache' = cache
    BY <2>1, <2>2
  <2>3. ASSUME NEW i \in Invocation, Written(i)
        PROVE  cache'.inst = cache.inst =>
                  cache'.listedAt >= cache.listedAt /\ cache'.triedAt >= cache.triedAt
    <3>1. cache.triedAt <= lastTry
      BY DEF TokenInv, Times
    <3>2. PICK e \in Entry : e.triedAt = lastTry /\ cache' = e
                              /\ (cache.inst = e.inst => e.listedAt >= cache.listedAt)
      BY <2>3 DEF Written
    <3>3. cache'.triedAt >= cache.triedAt
      BY <3>1, <3>2, CacheIs
    <3> QED BY <3>2, <3>3
  <2>4. ASSUME NEW i \in Invocation, T!StoreToken(i) \/ T!Relist(i) PROVE Written(i) \/ cache' = cache
    BY <2>4, StoreTokenWrites, RelistWrites
  <2>5. cache' = cache \/ \E i \in Invocation : T!StoreToken(i) \/ T!Relist(i)
    BY DEF T!Next, T!vars, T!ReadToken, T!LockToken, T!Mint, T!MintFails, T!Look, T!LockList,
           T!TryList, T!Kill, T!Again, T!Account, T!Tick
  <2> QED BY <2>2, <2>3, <2>4, <2>5
<1>2. ASSUME NEW i \in Invocation, T!At(i, "list again"), T!At(i, "relist")'
      PROVE  now >= T!Attempt(cache) + RelistInterval
  <2>1. proc[i].entry.triedAt = cache.triedAt /\ now - proc[i].entry.triedAt >= RelistInterval
    BY <1>2 DEF T!At, TokenInv, TokenRead, HasRead
  <2>2. /\ T!Attempt(cache) = cache.triedAt /\ cache.triedAt \in Int /\ now \in Int /\ RelistInterval \in Int
        /\ now - cache.triedAt >= RelistInterval
    BY <2>1, CacheIs DEF T!Parameters
  <2> QED BY <2>2
<1>3. T!Fresh(cache) => cache'.inst = cache.inst /\ cache'.expires = cache.expires
  <2>1. cache' = cache \/ \E i \in Invocation : T!StoreToken(i) \/ T!Relist(i)
    BY DEF T!Next, T!vars, T!ReadToken, T!LockToken, T!Mint, T!MintFails, T!Look, T!LockList,
           T!TryList, T!Kill, T!Again, T!Account, T!Tick
  <2> QED BY <2>1, TokenStays
<1> QED BY <1>1, <1>2, <1>3 DEF T!ForwardStep

(* Every part of the state has its type, for any invocations, lives of a     *)
(* token, intervals and bounds.                                               *)
THEOREM TokenTypeCorrect ==
    ASSUME T!Parameters
    PROVE  T!Spec => []T!TypeOK
<1>1. TokenInv => T!TypeOK
  <2> SUFFICES ASSUME TokenInv PROVE T!TypeOK
    OBVIOUS
  <2>1. \A e \in {cache} \cup {proc[i].entry : i \in Invocation} : e \in Entry
    BY CacheIs
  <2>2. \A i \in Invocation : proc[i] \in TokenProcess
    BY CacheIs
  <2>3. \A e \in {cache} \cup {proc[i].entry : i \in Invocation} :
          /\ e.inst \in 0 .. 2 /\ e.expires \in 0 .. MaxTime + Life /\ e.has \in BOOLEAN
          /\ {e.listedAt, e.triedAt} \subseteq T!Never .. MaxTime
    BY <2>1, EntryIs
  <2> QED BY <2>2, <2>3 DEF TokenInv, TokenTyped, T!TypeOK, TokenProcess
<1> QED BY <1>1, TokenInvariance, PTL

(* A token with more than minRemaining left is never replaced, of one         *)
(* installation the cache never gets an older list, or an earlier try of one, *)
(* however readers without the lock, writers under it and kills interleave,   *)
(* and no second try comes within relistInterval of the cached one (token,    *)
(* tokenFor, relist, writeCache).                                             *)
THEOREM CacheGoesForward ==
    ASSUME T!Parameters
    PROVE  T!Spec => T!CacheMovesForward
<1>1. TokenInv /\ TokenKept /\ [T!Next]_T!vars => T!ForwardStep
  BY StepForward
<1> QED BY <1>1, TokenInvariance, KeptInvariance, PTL DEF T!Spec, T!CacheMovesForward

-----------------------------------------------------------------------------
(***************************************************************************)
(* KeyProvisioning.  Answered is why register may say that nothing was     *)
(* stored: a callback that is over has sent its result, and register waits *)
(* for the one at work; Owned why each command may speak of the file.      *)
(***************************************************************************)

CONSTANT Callback
VARIABLES file, reg, call, mutex, dk, key

K == INSTANCE KeyProvisioning

\* What the parts of the state are.
FileState == [of : {K!None, "reg", "dk"}, whole : BOOLEAN]
RegState == [at : {"check", "select", "expire", "read", "shutdown", "over"}, finished : BOOLEAN,
             interrupted : BOOLEAN, done : {K!None, "failed", "stored"},
             told : {K!None, "refused", "nothing", "failed", "stored"}]
CallState == [at : {"new", "lock", "convert", "encrypt", "create", "write", "over"}, converted : BOOLEAN]
DKState == [at : {"check", "greet", "push", "pause", "encrypt", "create", "write", "over"},
            over : BOOLEAN, told : {K!None, "refused", "nothing", "failed", "stored"}]

\* Who holds the mutex is at work, and nobody else.
Working == {"convert", "encrypt", "create", "write"}
KeyLocked == \A c \in Callback : call[c].at \in Working <=> mutex = c

\* A callback that goes on has refused all others, and has used the code when
\* it comes to the key.
Entered(p) == /\ p.at \in Working \/ p.converted => reg.finished
              /\ p.at \in {"encrypt", "create", "write"} => p.converted
              /\ p.at = "write" => file.of = "reg"
Once == \A c \in Callback : Entered(call[c])

\* A file that one wrote to its end; and a code that was used.
Whole(by) == [of |-> by, whole |-> TRUE]
Used == \E c \in Callback : call[c].converted

\* A callback that is over has sent its result, until register takes it, which
\* waits for the one at work before it says that there is none.
Answered ==
    /\ reg.at \in {"check", "select", "expire", "read"} /\ mutex = K!None /\ Used => reg.done # K!None
    /\ reg.at = "read" \/ reg.told = "nothing" => reg.finished /\ mutex = K!None
    /\ reg.told = "nothing" => ~ Used
    /\ reg.done = "stored" \/ reg.told = "stored" => file = Whole("reg")

\* The file is of the one that created it.
Owned ==
    /\ file.of = "reg" => Used
    /\ dk.at = "write" => file.of = "dk"
    /\ file.of = "dk" => dk.at = "write" \/ (dk.at = "over" /\ dk.told # "nothing")
    /\ dk.told = "stored" => file = Whole("dk")
    /\ dk.told # K!None => dk.at = "over"

\* The invariant.
KeyInv == K!TypeOK /\ KeyLocked /\ Once /\ Answered /\ Owned

(* What the parts of the state are. *)
LEMMA StateIs ==
    ASSUME K!TypeOK
    PROVE  /\ file \in FileState /\ reg \in RegState /\ call \in [Callback -> CallState]
           /\ dk \in DKState /\ mutex \in Callback \cup {K!None}
           /\ \A c \in Callback : call[c] \in CallState
BY DEF K!TypeOK, FileState, RegState, CallState, DKState

(* A callback's step to another place. *)
LEMMA CallIs ==
    ASSUME K!TypeOK, NEW c \in Callback, NEW from,
           NEW to \in {"lock", "convert", "encrypt", "create", "write", "over"},
           K!Call(c, from, to)
    PROVE  /\ call' \in [Callback -> CallState] /\ call'[c].at = to /\ call[c].at = from
           /\ call'[c].converted = call[c].converted
           /\ \A d \in Callback : d # c => call'[d] = call[d]
<1>1. call \in [Callback -> CallState] /\ call[c] \in CallState
  BY StateIs
<1>2. call' = [call EXCEPT ![c] = [call[c] EXCEPT !.at = to]] /\ call[c].at = from
  BY DEF K!Call
<1>3. [call[c] EXCEPT !.at = to] \in CallState
  BY <1>1 DEF CallState
<1>4. call'[c] = [call[c] EXCEPT !.at = to]
  BY <1>1, <1>2
<1> QED BY <1>1, <1>2, <1>3, <1>4 DEF CallState

(* The end of a callback that used the code or not. *)
LEMMA SentIs ==
    ASSUME K!TypeOK, NEW c \in Callback, NEW result \in {"failed", "stored"}, K!Send(c, result)
    PROVE  /\ call' \in [Callback -> CallState] /\ call'[c].at = "over"
           /\ call'[c].converted = call[c].converted
           /\ \A d \in Callback : d # c => call'[d] = call[d]
           /\ mutex' = K!None /\ reg' \in RegState /\ reg'.done = result /\ reg'.at = reg.at
           /\ reg'.finished = reg.finished /\ reg'.told = reg.told
<1>1. call \in [Callback -> CallState] /\ call[c] \in CallState /\ reg \in RegState
  BY StateIs
<1>2. call' = [call EXCEPT ![c] = [call[c] EXCEPT !.at = "over"]]
  BY DEF K!Send
<1>3. [call[c] EXCEPT !.at = "over"] \in CallState
  BY <1>1 DEF CallState
<1>4. call'[c] = [call[c] EXCEPT !.at = "over"]
  BY <1>1, <1>2
<1>5. reg' = [reg EXCEPT !.done = result] /\ mutex' = K!None
  BY DEF K!Send
<1>6. reg' \in RegState
  BY <1>1, <1>5 DEF RegState
<1>7. call' \in [Callback -> CallState] /\ \A d \in Callback : d # c => call'[d] = call[d]
  BY <1>1, <1>2, <1>3
<1> QED BY <1>1, <1>3, <1>4, <1>5, <1>6, <1>7 DEF CallState, RegState

(* A callback that holds the mutex, or takes it, goes on, or ends. *)
LEMMA WorkKeeps ==
    ASSUME K!Parameters, KeyInv, NEW c \in Callback,
           call' \in [Callback -> CallState], \A d \in Callback : d # c => call'[d] = call[d],
           reg' \in RegState, reg'.at = reg.at, reg'.told = reg.told, reg'.finished, reg.at # "check",
           UNCHANGED <<dk, key>>,
           mutex = c \/ (mutex = K!None /\ ~ reg.finished),
           call[c].converted => call'[c].converted,
           call'[c].at \in {"encrypt", "create", "write"} => call'[c].converted,
           call'[c].at = "write" => file'.of = "reg",
           \/ call'[c].at \in Working /\ mutex' = c /\ reg'.done = reg.done
           \/ call'[c].at = "over" /\ mutex' = K!None /\ reg'.done \in {"failed", "stored"},
           reg'.done = "stored" => reg.done = "stored" \/ file' = Whole("reg"),
           \/ file' = file
           \/ file = K!NoFile /\ file' = [of |-> "reg", whole |-> FALSE] /\ call'[c].converted
           \/ file.of = "reg" /\ file' = Whole("reg")
    PROVE  KeyInv'
<1>1. mutex \in Callback \cup {K!None} /\ mutex' \in Callback \cup {K!None} /\ c # K!None
  BY StateIs DEF KeyInv, K!Parameters
<1>2. \A d \in Callback : d # c => call[d].at \notin Working
  BY <1>1 DEF KeyInv, KeyLocked, K!Parameters
<1>3. file \in FileState /\ file' \in FileState /\ dk \in DKState /\ key' = key
  <2>1. file \in FileState /\ dk \in DKState
    BY StateIs DEF KeyInv
  <2>2. [of |-> "reg", whole |-> FALSE] \in FileState /\ Whole("reg") \in FileState
    BY DEF FileState, Whole
  <2> QED BY <2>1, <2>2
<1>4. K!TypeOK'
  <2>1. dk' = dk /\ key' = key /\ key \in {"none", "read", "write", "user"}
    BY DEF KeyInv, K!TypeOK
  <2> QED BY <1>1, <1>3, <2>1 DEF K!TypeOK, FileState, RegState, CallState, DKState
<1>5. KeyLocked'
  <2> SUFFICES ASSUME NEW d \in Callback PROVE (call[d].at \in Working <=> mutex = d)'
    BY DEF KeyLocked
  <2>1. CASE d = c
    BY <1>1, <2>1 DEF Working
  <2>2. CASE d # c
    <3>1. call'[d] = call[d] /\ d # K!None /\ mutex' \in {c, K!None}
      BY <2>2 DEF K!Parameters
    <3> QED BY <1>2, <2>2, <3>1 DEF Working
  <2> QED BY <2>1, <2>2
<1>6. Once'
  <2> SUFFICES ASSUME NEW d \in Callback PROVE Entered(call[d])'
    BY DEF Once
  <2>1. CASE d = c
    BY <2>1 DEF Entered
  <2>2. CASE d # c
    BY <1>2, <2>2 DEF KeyInv, Once, Entered, Working
  <2> QED BY <2>1, <2>2
<1>7. reg.told # "nothing" /\ reg.at # "read"
  BY <1>1 DEF KeyInv, Answered
<1>8. Answered'
  <2>1. mutex' = K!None => reg'.done # K!None
    <3>1. K!None # "failed" /\ K!None # "stored"
      BY DEF K!None
    <3> QED BY <1>1, <3>1
  <2>2. file = Whole("reg") => file' = Whole("reg")
    <3>1. Whole("reg") # K!NoFile
      BY DEF Whole, K!NoFile, K!None
    <3> QED BY <3>1
  <2>3. (reg'.done = "stored" \/ reg'.told = "stored") => file' = Whole("reg")
    BY <2>2 DEF KeyInv, Answered
  <2> QED BY <1>7, <2>1, <2>3 DEF Answered
<1>9. Used => Used'
  <2> SUFFICES ASSUME Used PROVE Used'
    OBVIOUS
  <2>1. PICK d \in Callback : call[d].converted
    BY DEF Used
  <2>2. call'[d].converted
    BY <2>1
  <2> QED BY <2>2 DEF Used
<1>10. Owned'
  <2>1. file'.of = "reg" => Used'
    <3>1. file.of = "reg" => Used
      BY DEF KeyInv, Owned
    <3>2. call'[c].converted => Used'
      BY DEF Used
    <3> QED BY <1>9, <3>1, <3>2
  <2>2. file.of = "dk" <=> file'.of = "dk"
    <3>1. K!NoFile.of = K!None /\ [of |-> "reg", whole |-> FALSE].of = "reg" /\ Whole("reg").of = "reg"
      BY DEF K!NoFile, Whole
    <3> QED BY <3>1 DEF K!None
  <2>3. file = Whole("dk") => file' = Whole("dk")
    <3>1. Whole("dk").of = "dk" /\ K!NoFile.of = K!None
      BY DEF Whole, K!NoFile
    <3> QED BY <3>1 DEF K!None
  <2> QED BY <2>1, <2>2, <2>3 DEF KeyInv, Owned
<1> QED BY <1>4, <1>5, <1>6, <1>8, <1>10 DEF KeyInv

(* The mutex is the callback's that is at work. *)
LEMMA AtWork ==
    ASSUME K!Parameters, KeyInv, NEW c \in Callback, K!Serving
    PROVE  /\ call[c].at \in Working => mutex = c /\ reg.finished
           /\ call[c].at \in {"encrypt", "create", "write"} => call[c].converted
           /\ call[c].at = "write" => file.of = "reg"
           /\ reg.at # "check"
BY DEF KeyInv, KeyLocked, Once, Entered, K!Serving

(* A callback arrives, waits for the mutex, and is refused or goes on. *)
LEMMA EnterKeeps ==
    ASSUME K!Parameters, KeyInv, NEW c \in Callback, K!Enter(c) \/ K!Arrive(c)
    PROVE  KeyInv'
<1>1. CASE K!Enter(c) /\ ~ reg.finished
  <2>1. /\ K!Call(c, "lock", "convert") /\ reg' = [reg EXCEPT !.finished = TRUE] /\ mutex' = c
        /\ mutex = K!None /\ UNCHANGED <<file, dk, key>> /\ K!Serving
    BY <1>1 DEF K!Enter
  <2>2. reg \in RegState
    BY StateIs DEF KeyInv
  <2>3. reg' \in RegState /\ reg'.finished /\ reg'.at = reg.at /\ reg'.told = reg.told /\ reg'.done = reg.done
    BY <2>1, <2>2 DEF RegState
  <2>4. /\ call' \in [Callback -> CallState] /\ \A d \in Callback : d # c => call'[d] = call[d]
        /\ call'[c].at = "convert" /\ (call[c].converted => call'[c].converted)
    BY <2>1, CallIs DEF KeyInv
  <2> QED BY <1>1, <2>1, <2>3, <2>4, AtWork, WorkKeeps DEF Working
<1>2. CASE K!Arrive(c) \/ (K!Enter(c) /\ reg.finished)
  <2>1. UNCHANGED <<file, reg, mutex, dk, key>> /\ K!Serving
    BY <1>2 DEF K!Arrive, K!Enter
  <2>2. PICK from \in {"new", "lock"}, to \in {"lock", "over"} : K!Call(c, from, to)
    BY <1>2 DEF K!Arrive, K!Enter
  <2>3. /\ call' \in [Callback -> CallState] /\ call'[c].at = to /\ call[c].at = from
        /\ call'[c].converted = call[c].converted
        /\ \A d \in Callback : d # c => call'[d] = call[d]
    BY <2>2, CallIs DEF KeyInv
  <2>4. ASSUME NEW d \in Callback
        PROVE  /\ call'[d].converted = call[d].converted
               /\ call'[d].at = call[d].at \/ (call'[d].at \notin Working /\ call[d].at \notin Working)
    <3>1. CASE d = c
      BY <2>3, <3>1 DEF Working
    <3>2. CASE d # c
      BY <2>3, <3>2
    <3> QED BY <3>1, <3>2
  <2>5. K!TypeOK'
    BY <2>1, <2>3 DEF KeyInv, K!TypeOK, CallState
  <2>6. KeyLocked'
    BY <2>1, <2>4 DEF KeyInv, KeyLocked, Working
  <2>7. Once'
    <3> SUFFICES ASSUME NEW d \in Callback PROVE Entered(call[d])'
      BY DEF Once
    <3>1. /\ call'[d].converted = call[d].converted
          /\ call'[d].at = call[d].at \/ call'[d].at \notin Working
      BY <2>4
    <3>5. reg' = reg /\ file' = file
      BY <2>1
    <3>2. Entered(call[d])
      BY DEF KeyInv, Once
    <3>3. CASE call'[d].at = call[d].at
      BY <3>1, <3>2, <3>3, <3>5 DEF Entered
    <3>4. CASE call'[d].at \notin Working
      BY <3>1, <3>2, <3>4, <3>5 DEF Entered, Working
    <3> QED BY <3>1, <3>3, <3>4
  <2>8. Used' <=> Used
    <3>1. \A d \in Callback : call'[d].converted = call[d].converted
      BY <2>4
    <3> QED BY <3>1 DEF Used
  <2>9. Answered' /\ Owned'
    BY <2>1, <2>8 DEF KeyInv, Answered, Owned
  <2> QED BY <2>5, <2>6, <2>7, <2>9 DEF KeyInv
<1> QED BY <1>1, <1>2 DEF K!Enter

(* A result ends the callback that is at work. *)
LEMMA SendKeeps ==
    ASSUME K!Parameters, KeyInv, NEW c \in Callback, K!Serving, call[c].at \in Working,
           NEW result \in {"failed", "stored"}, K!Send(c, result), UNCHANGED <<dk, key>>,
           \/ file' = file /\ result = "failed"
           \/ file.of = "reg" /\ file' = Whole("reg")
    PROVE  KeyInv'
<1>1. K!TypeOK
  BY DEF KeyInv
<1>2. /\ call' \in [Callback -> CallState] /\ call'[c].at = "over"
      /\ call'[c].converted = call[c].converted
      /\ \A d \in Callback : d # c => call'[d] = call[d]
      /\ mutex' = K!None /\ reg' \in RegState /\ reg'.done = result /\ reg'.at = reg.at
      /\ reg'.finished = reg.finished /\ reg'.told = reg.told
  BY <1>1, SentIs
<1>3. mutex = c /\ reg.finished /\ reg.at # "check"
  BY AtWork
<1> QED BY <1>2, <1>3, WorkKeeps

(* The code is converted, or that fails and the callback is over. *)
LEMMA ConvertKeeps ==
    ASSUME K!Parameters, KeyInv, NEW c \in Callback, K!Convert(c)
    PROVE  KeyInv'
<1>1. call \in [Callback -> CallState] /\ reg \in RegState /\ K!TypeOK
  BY StateIs DEF KeyInv
<1>2. /\ mutex = c /\ reg.finished /\ reg.at # "check" /\ K!Serving /\ call[c].at = "convert"
      /\ UNCHANGED <<file, dk, key>>
  BY AtWork DEF K!Convert, Working
<1>3. CASE call' = [call EXCEPT ![c] = [at |-> "encrypt", converted |-> TRUE]] /\ UNCHANGED <<reg, mutex>>
  <2>1. /\ call' \in [Callback -> CallState] /\ \A d \in Callback : d # c => call'[d] = call[d]
        /\ call'[c].at = "encrypt" /\ call'[c].converted
    <3>1. [at |-> "encrypt", converted |-> TRUE] \in CallState
      BY DEF CallState
    <3> QED BY <1>1, <1>3, <3>1
  <2> QED BY <1>1, <1>2, <1>3, <2>1, WorkKeeps DEF Working
<1>4. CASE /\ call' = [call EXCEPT ![c] = [at |-> "over", converted |-> TRUE]]
           /\ reg' = [reg EXCEPT !.done = "failed"] /\ mutex' = K!None
  <2>1. /\ call' \in [Callback -> CallState] /\ \A d \in Callback : d # c => call'[d] = call[d]
        /\ call'[c].at = "over" /\ call'[c].converted
    <3>1. [at |-> "over", converted |-> TRUE] \in CallState
      BY DEF CallState
    <3> QED BY <1>1, <1>4, <3>1
  <2>2. reg' \in RegState /\ reg'.finished /\ reg'.at = reg.at /\ reg'.told = reg.told /\ reg'.done = "failed"
    BY <1>1, <1>2, <1>4 DEF RegState
  <2> QED BY <1>2, <1>4, <2>1, <2>2, WorkKeeps
<1> QED BY <1>3, <1>4 DEF K!Convert

(* The key is encrypted, the file created, then written. *)
LEMMA SaveKeeps ==
    ASSUME K!Parameters, KeyInv, NEW c \in Callback, K!RegEncrypt(c) \/ K!RegCreate(c) \/ K!RegWrite(c)
    PROVE  KeyInv'
<1>1. K!TypeOK /\ reg \in RegState /\ file \in FileState
  BY StateIs DEF KeyInv
<1>2. K!Serving /\ call[c].at \in {"encrypt", "create", "write"} /\ UNCHANGED <<dk, key>>
  BY DEF K!RegEncrypt, K!RegCreate, K!RegWrite
<1>3. mutex = c /\ reg.finished /\ reg.at # "check" /\ call[c].converted /\ call[c].at \in Working
  BY <1>2, AtWork DEF Working
<1>4. CASE /\ K!Call(c, "encrypt", "create") /\ UNCHANGED <<file, reg, mutex>>
  <2>1. /\ call' \in [Callback -> CallState] /\ call'[c].at = "create"
        /\ call'[c].converted = call[c].converted
        /\ \A d \in Callback : d # c => call'[d] = call[d]
    BY <1>1, <1>4, CallIs
  <2> QED BY <1>1, <1>2, <1>3, <1>4, <2>1, WorkKeeps DEF Working
<1>5. CASE /\ file = K!NoFile /\ file' = [of |-> "reg", whole |-> FALSE]
           /\ K!Call(c, "create", "write") /\ UNCHANGED <<reg, mutex>>
  <2>1. /\ call' \in [Callback -> CallState] /\ call'[c].at = "write"
        /\ call'[c].converted = call[c].converted
        /\ \A d \in Callback : d # c => call'[d] = call[d]
    BY <1>1, <1>5, CallIs
  <2>2. file'.of = "reg"
    BY <1>5
  <2> QED BY <1>1, <1>2, <1>3, <1>5, <2>1, <2>2, WorkKeeps DEF Working
<1>6. CASE UNCHANGED file /\ K!Send(c, "failed")
  BY <1>2, <1>3, <1>6, SendKeeps
<1>7. CASE K!RegWrite(c) /\ file' = [file EXCEPT !.whole = file.of = "reg"] /\ K!Send(c, "stored")
  <2>1. file.of = "reg"
    BY <1>2, <1>7, AtWork DEF K!RegWrite
  <2>2. file' = Whole("reg")
    BY <1>1, <1>7, <2>1 DEF FileState, Whole
  <2> QED BY <1>2, <1>3, <1>7, <2>1, <2>2, SendKeeps
<1> QED BY <1>4, <1>5, <1>6, <1>7 DEF K!RegEncrypt, K!RegCreate, K!RegWrite, K!Create, K!WriteFile

(* register's own steps leave the file and the callbacks. *)
LEMMA RegisterKeeps ==
    ASSUME K!Parameters, KeyInv,
           K!RegCheck \/ K!Result \/ K!Expire \/ K!RefuseLater \/ K!ReadDone \/ K!Shutdown
    PROVE  KeyInv'
<1>1. UNCHANGED <<file, call, mutex, dk, key>> /\ reg \in RegState
  BY StateIs DEF KeyInv, K!RegCheck, K!Result, K!Expire, K!RefuseLater, K!ReadDone, K!Shutdown
<1>2. /\ reg' \in RegState /\ (reg.finished => reg'.finished)
      /\ Answered'
  <2>1. CASE K!RegCheck
    BY <1>1, <2>1 DEF K!RegCheck, RegState, KeyInv, Answered, Used
  <2>2. CASE K!Result
    <3>1. /\ reg.at = "select" /\ reg.done # K!None
          /\ reg' = [reg EXCEPT !.at = "shutdown", !.told = reg.done, !.done = K!None]
      BY <2>2 DEF K!Result
    <3>2. /\ reg' \in RegState /\ reg'.finished = reg.finished /\ reg'.at = "shutdown"
          /\ reg'.told = reg.done /\ reg'.done = K!None /\ reg.done \in {"failed", "stored"}
      BY <1>1, <3>1 DEF RegState
    <3> QED BY <1>1, <3>2 DEF KeyInv, Answered, K!None
  <2>3. CASE K!Expire
    BY <1>1, <2>3 DEF K!Expire, RegState, KeyInv, Answered, Used
  <2>4. CASE K!RefuseLater
    BY <1>1, <2>4 DEF K!RefuseLater, RegState, KeyInv, Answered, Used
  <2>5. CASE K!ReadDone
    <3>1. /\ reg.at = "read"
          /\ reg' = [reg EXCEPT !.at = "shutdown", !.done = K!None,
                                !.told = IF reg.done = K!None THEN "nothing" ELSE reg.done]
      BY <2>5 DEF K!ReadDone
    <3>2. /\ reg' \in RegState /\ reg'.finished = reg.finished /\ reg'.at = "shutdown" /\ reg'.done = K!None
          /\ reg'.told = IF reg.done = K!None THEN "nothing" ELSE reg.done
      BY <1>1, <3>1 DEF RegState
    <3>3. reg.finished /\ mutex = K!None /\ (reg.done = K!None => ~ Used)
      BY <3>1 DEF KeyInv, Answered
    <3>4. (Used' <=> Used) /\ mutex' = mutex /\ file' = file
      BY <1>1 DEF Used
    <3>5. reg.done # "nothing"
      BY <1>1 DEF RegState, K!None
    <3> QED BY <3>1, <3>2, <3>3, <3>4, <3>5 DEF KeyInv, Answered, K!None
  <2>6. CASE K!Shutdown
    BY <1>1, <2>6 DEF K!Shutdown, RegState, KeyInv, Answered, Used
  <2> QED BY <2>1, <2>2, <2>3, <2>4, <2>5, <2>6
<1>3. K!TypeOK'
  BY <1>1, <1>2 DEF KeyInv, K!TypeOK, RegState
<1>4. KeyLocked' /\ Once' /\ Owned'
  BY <1>1, <1>2 DEF KeyInv, KeyLocked, Once, Entered, Owned, Used
<1> QED BY <1>2, <1>3, <1>4 DEF KeyInv

(* The deploy key's command leaves the callbacks, and another's file. *)
LEMMA DeployKeyKeeps ==
    ASSUME K!Parameters, KeyInv,
           \/ K!DKCheck \/ K!Greet \/ K!Push \/ K!WaitOver \/ K!Pause \/ K!DKEncrypt
              \/ K!DKCreate \/ K!DKWrite \/ K!Person
    PROVE  KeyInv'
<1>1. UNCHANGED <<reg, call, mutex>>
  BY DEF K!DKCheck, K!Greet, K!Push, K!WaitOver, K!Pause, K!DKEncrypt, K!DKCreate, K!DKWrite, K!Person
<1>2. dk \in DKState /\ file \in FileState /\ key \in {"none", "read", "write", "user"}
  BY StateIs DEF KeyInv, K!TypeOK
<1>3. /\ dk' \in DKState /\ key' \in {"none", "read", "write", "user"}
      /\ dk'.told # K!None => dk'.at = "over" \/ dk'.told = dk.told
      /\ dk.at # "over"
      /\ \/ /\ dk.at # "write" /\ file' = file /\ dk'.at # "write"
            /\ (dk'.told # "stored" \/ dk'.told = dk.told)
         \/ dk.at # "write" /\ file = K!NoFile /\ file' = [of |-> "dk", whole |-> FALSE]
            /\ dk'.told = dk.told /\ dk'.at = "write"
         \/ /\ dk.at = "write" /\ dk'.at = "over" /\ dk'.told = "stored"
            /\ file' = [file EXCEPT !.whole = file.of = "dk"]
         \/ dk.at = "write" /\ dk'.at = "over" /\ dk'.told = "failed" /\ file' = file
  <2>1. CASE K!DKCheck
    BY <1>2, <2>1 DEF K!DKCheck, K!DKGoto, K!DKEnd, DKState
  <2>2. CASE K!Greet
    BY <1>2, <2>2 DEF K!Greet, K!DKGoto, K!DKEnd, DKState
  <2>3. CASE K!Push
    BY <1>2, <2>3 DEF K!Push, K!DKGoto, K!DKEnd, DKState
  <2>4. CASE K!WaitOver
    BY <1>2, <2>4 DEF K!WaitOver, DKState
  <2>5. CASE K!Pause
    BY <1>2, <2>5 DEF K!Pause, K!DKGoto, K!DKEnd, DKState
  <2>6. CASE K!DKEncrypt
    BY <1>2, <2>6 DEF K!DKEncrypt, K!DKGoto, K!DKEnd, DKState
  <2>7. CASE K!DKCreate
    BY <1>2, <2>7 DEF K!DKCreate, K!Create, K!DKGoto, K!DKEnd, DKState
  <2>8. CASE K!DKWrite
    BY <1>2, <2>8 DEF K!DKWrite, K!WriteFile, K!DKEnd, DKState
  <2>9. CASE K!Person
    BY <1>2, <2>9 DEF K!Person, DKState
  <2> QED BY <2>1, <2>2, <2>3, <2>4, <2>5, <2>6, <2>7, <2>8, <2>9
<1>4. dk.told = K!None
  BY <1>3 DEF KeyInv, Owned
<1>5. file.of = "dk" => dk.at = "write"
  BY <1>3 DEF KeyInv, Owned
<1>6. /\ file' \in FileState
      /\ file.of = "reg" => file' = file
      /\ file'.of = "reg" => file.of = "reg"
  <2>1. CASE file' = file
    BY <1>2, <2>1
  <2>2. CASE file = K!NoFile /\ file' = [of |-> "dk", whole |-> FALSE]
    BY <2>2 DEF K!NoFile, K!None, FileState
  <2>3. CASE dk.at = "write" /\ file' = [file EXCEPT !.whole = file.of = "dk"]
    <3>1. file.of = "dk"
      BY <2>3 DEF KeyInv, Owned
    <3> QED BY <1>2, <2>3, <3>1 DEF FileState
  <2> QED BY <1>3, <2>1, <2>2, <2>3
<1>7. K!TypeOK'
  BY <1>1, <1>3, <1>6 DEF KeyInv, K!TypeOK, FileState, DKState
<1>8. KeyLocked'
  BY <1>1 DEF KeyInv, KeyLocked
<1>9. Once'
  <2> SUFFICES ASSUME NEW c \in Callback PROVE Entered(call[c])'
    BY DEF Once
  <2>1. Entered(call[c])
    BY DEF KeyInv, Once
  <2> QED BY <1>1, <1>6, <2>1 DEF Entered
<1>10. Used' <=> Used
  BY <1>1 DEF Used
<1>11. Answered'
  <2>1. file = Whole("reg") => file' = Whole("reg")
    BY <1>6 DEF Whole
  <2> QED BY <1>1, <1>10, <2>1 DEF KeyInv, Answered
<1>12. Owned'
  <2>1. file'.of = "reg" => Used'
    BY <1>6, <1>10 DEF KeyInv, Owned
  <2>2. CASE /\ dk.at # "write" /\ file' = file /\ dk'.at # "write"
             /\ (dk'.told # "stored" \/ dk'.told = dk.told)
    BY <1>3, <1>4, <1>5, <2>1, <2>2 DEF Owned, K!None
  <2>3. CASE /\ dk.at # "write" /\ file = K!NoFile /\ file' = [of |-> "dk", whole |-> FALSE]
             /\ dk'.told = dk.told /\ dk'.at = "write"
    BY <1>3, <1>4, <2>1, <2>3 DEF Owned, K!None
  <2>4. CASE /\ dk.at = "write" /\ dk'.at = "over" /\ dk'.told = "stored"
             /\ file' = [file EXCEPT !.whole = file.of = "dk"]
    <3>1. file.of = "dk"
      BY <2>4 DEF KeyInv, Owned
    <3>2. file' = Whole("dk")
      BY <1>2, <2>4, <3>1 DEF FileState, Whole
    <3> QED BY <2>1, <2>4, <3>2 DEF Owned
  <2>5. CASE dk.at = "write" /\ dk'.at = "over" /\ dk'.told = "failed" /\ file' = file
    BY <2>1, <2>5 DEF Owned
  <2> QED BY <1>3, <2>2, <2>3, <2>4, <2>5
<1> QED BY <1>7, <1>8, <1>9, <1>11, <1>12 DEF KeyInv

(* Every step keeps the invariant. *)
LEMMA KeyInvNext ==
    ASSUME K!Parameters, KeyInv, [K!Next]_K!vars
    PROVE  KeyInv'
<1>1. CASE UNCHANGED K!vars
  BY <1>1 DEF K!vars, KeyInv, K!TypeOK, KeyLocked, Once, Entered, Answered, Owned, Used
<1>2. ASSUME NEW c \in Callback,
             \/ K!Arrive(c) \/ K!Enter(c) \/ K!Convert(c)
             \/ K!RegEncrypt(c) \/ K!RegCreate(c) \/ K!RegWrite(c)
      PROVE  KeyInv'
  BY <1>2, EnterKeeps, ConvertKeeps, SaveKeeps
<1> QED BY <1>1, <1>2, RegisterKeeps, DeployKeyKeeps DEF K!Next

(* The invariant holds at first. *)
LEMMA KeyInvInit ==
    ASSUME K!Parameters, K!Init
    PROVE  KeyInv
<1>1. K!TypeOK
  BY DEF K!Init, K!TypeOK, K!NoFile
<1>2. \A c \in Callback : call[c].at = "new" /\ ~ call[c].converted
  BY DEF K!Init
<1>3. KeyLocked /\ Once
  BY <1>2 DEF K!Init, K!Parameters, KeyLocked, Once, Entered, Working
<1>4. Answered /\ Owned
  BY <1>2 DEF K!Init, Answered, Owned, Used, K!NoFile, K!None
<1> QED BY <1>1, <1>3, <1>4 DEF KeyInv

(* So it always holds. *)
LEMMA KeyInvariance ==
    ASSUME K!Parameters
    PROVE  K!Spec => []KeyInv
<1>1. K!Init => KeyInv
  BY KeyInvInit
<1>2. KeyInv /\ [K!Next]_K!vars => KeyInv'
  BY KeyInvNext
<1> QED BY <1>1, <1>2, PTL DEF K!Spec

(* Every part of the state has its type, for any callbacks. *)
THEOREM KeyTypeCorrect ==
    ASSUME K!Parameters
    PROVE  K!Spec => []K!TypeOK
<1>1. KeyInv => K!TypeOK
  BY DEF KeyInv
<1> QED BY <1>1, KeyInvariance, PTL

(* What register says at its end is true of its callbacks and of the file,    *)
(* whichever callback converted the code, failed, was interrupted or timed    *)
(* out; and what forgejo-deploy-key says is true of the file, which the other *)
(* command may create before it (handleCallback, waitForResult, Save).        *)
THEOREM CommandsTellTheTruth ==
    ASSUME K!Parameters
    PROVE  K!Spec => []K!TellsTheTruth
<1>1. KeyInv => K!TellsTheTruth
  <2> SUFFICES ASSUME KeyInv PROVE K!TellsTheTruth
    OBVIOUS
  <2>1. reg.told = "nothing" => file.of # "reg" /\ \A c \in Callback : ~ call[c].converted
    BY DEF KeyInv, Answered, Owned, Used
  <2>2. reg.told = "stored" => file = Whole("reg")
    BY DEF KeyInv, Answered
  <2>3. dk.told = "nothing" => file.of # "dk"
    BY DEF KeyInv, Owned, K!None
  <2>4. dk.told = "stored" => file = Whole("dk")
    BY DEF KeyInv, Owned
  <2> QED BY <2>1, <2>2, <2>3, <2>4 DEF K!TellsTheTruth, Whole
<1> QED BY <1>1, KeyInvariance, PTL

-----------------------------------------------------------------------------
(***************************************************************************)
(* ForgeMirror.  AtHome says which forge has what was acknowledged and not *)
(* overwritten by a pull mirror's push mirror, and that no GitHub-primary  *)
(* repository is pushed over GitHub's; Knows what a                        *)
(* command may rely on of what it read before, which Alone, one operator   *)
(* command at a time, keeps true while the timers work beside it.          *)
(***************************************************************************)

CONSTANTS Worker, MaxCommit
VARIABLES primary, forgejo, remotes, acked, commits, overwritten

M == INSTANCE ForgeMirror WITH Process <- Worker

Kinds == {M!None, "mirror", "regular"}
Commits == SUBSET (1 .. MaxCommit)
ForgejoState == [kind : Kinds, commits : Commits, mirrored : BOOLEAN]
RemotesState == [from : M!Address, origin : M!Address, github : {M!None, "gh"}, push : SUBSET M!Address]
Commands == M!Timed \cup M!Rebuilding \cup M!Mirroring
Places == {"idle", "listed", "unset", "check", "reread", "own", "add", "unpush", "record", "origin",
           "clear", "restore", "migrate", "delete", "push", "unmirror", "mirror"}
ProcState == [at : Places, cmd : Commands \cup {M!None}, kind : Kinds, push : SUBSET M!Address,
              clone : Commits]

\* The type invariant, of the whole state.
MirrorTyped ==
    /\ primary \in BOOLEAN /\ commits \in 0 .. MaxCommit
    /\ github \in Commits /\ overwritten \in Commits /\ acked \subseteq 1 .. commits
    /\ forgejo \in ForgejoState /\ remotes \in RemotesState
    /\ proc \in [Worker -> ProcState]

\* What a command of the operator's is: there is one at a time.
Alone == \A p, q \in Worker : p # q => {proc[p].cmd, proc[q].cmd} \cap (M!Timed \cup {M!None}) # {}

\* What a command relies on of what it read before.
Knows(n) ==
    /\ n.at = "listed" /\ n.cmd = "convert" => n.kind = forgejo.kind
    /\ n.at = "delete" => n.cmd = "recreate" \/ (n.cmd = "convert" /\ forgejo.kind = "mirror")
    /\ n.at = "migrate" => n.cmd \in {"convert", "recreate"}
    /\ n.at \in {"mirror", "unmirror"} => ~ primary
    /\ n.at = "origin" /\ remotes.from = "gh" => remotes.github = "gh"
Known == \A p \in Worker : Knows(proc[p])

\* Who has what was acknowledged and not overwritten: the forge the repository
\* belongs to.  What is GitHub-primary is not pushed over GitHub's.
AtHome ==
    /\ primary \/ forgejo.kind # "regular" => acked \subseteq github \cup overwritten
    /\ ~ primary /\ forgejo.kind = "regular" => acked \subseteq forgejo.commits \cup overwritten
    /\ forgejo.mirrored => ~ primary /\ forgejo.kind # M!None
Named == remotes.from = "gh" => "gh" \in {remotes.origin, remotes.github}

MirrorInv == MirrorTyped /\ Alone /\ Known /\ AtHome /\ Named

-----------------------------------------------------------------------------

(* The parts of the state. *)
LEMMA MirrorStateIs ==
    ASSUME M!Parameters, MirrorInv
    PROVE  /\ forgejo \in ForgejoState /\ remotes \in RemotesState /\ github \in Commits
           /\ acked \subseteq 1 .. commits /\ commits \in Nat /\ commits <= MaxCommit /\ MaxCommit \in Nat
           /\ \A p \in Worker : proc[p] \in ProcState /\ Knows(proc[p])
BY DEF MirrorInv, MirrorTyped, Known, M!Parameters

(* A command's step leaves the other commands what they rely on. *)
LEMMA MirrorStepKeeps ==
    ASSUME M!Parameters, MirrorInv, NEW p \in Worker, NEW n \in ProcState,
           proc' = [proc EXCEPT ![p] = n], n.cmd \in {M!None, proc[p].cmd}, Knows(n)',
           UNCHANGED <<primary, github, commits, overwritten>>, acked' \subseteq acked,
           forgejo' \in ForgejoState, remotes' \in RemotesState,
           forgejo'.kind = forgejo.kind \/ proc[p].cmd \in M!Rebuilding,
           remotes'.from = remotes.from, remotes.github = "gh" => remotes'.github = "gh",
           AtHome', Named'
    PROVE  MirrorInv'
<1>1. /\ proc' \in [Worker -> ProcState] /\ proc'[p] = n
      /\ \A q \in Worker : q # p => proc'[q] = proc[q]
  BY DEF MirrorInv, MirrorTyped
<1>2. MirrorTyped'
  BY <1>1 DEF MirrorInv, MirrorTyped
<1>3. Alone'
  <2> SUFFICES ASSUME NEW i \in Worker, NEW k \in Worker, i # k
               PROVE  {proc'[i].cmd, proc'[k].cmd} \cap (M!Timed \cup {M!None}) # {}
    BY DEF Alone
  <2>1. {proc[i].cmd, proc[k].cmd} \cap (M!Timed \cup {M!None}) # {}
    BY DEF MirrorInv, Alone
  <2>2. proc'[i].cmd \in {M!None, proc[i].cmd} /\ proc'[k].cmd \in {M!None, proc[k].cmd}
    BY <1>1
  <2> QED BY <2>1, <2>2
<1>4. Known'
  <2> SUFFICES ASSUME NEW q \in Worker, q # p PROVE Knows(proc[q])'
    BY <1>1 DEF Known
  <2>1. proc'[q] = proc[q] /\ Knows(proc[q])
    BY <1>1 DEF MirrorInv, Known
  <2>2. forgejo'.kind = forgejo.kind \/ proc[q].cmd \notin {"convert", "recreate"}
    BY DEF MirrorInv, Alone, M!Rebuilding, M!Timed, M!None
  <2>3. forgejo'.kind = forgejo.kind \/ ~ (proc[q].at = "delete" \/ (proc[q].at = "listed" /\ proc[q].cmd = "convert"))
    BY <2>1, <2>2 DEF Knows
  <2> QED BY <2>1, <2>3 DEF Knows
<1> QED BY <1>2, <1>3, <1>4 DEF MirrorInv

(* Nothing is relied on at a command's end. *)
LEMMA IdleIs ==
    ASSUME M!Parameters
    PROVE  M!Idle \in ProcState /\ M!Idle.cmd = M!None /\ M!Idle.at = "idle"
BY DEF M!Idle, ProcState, Places, Kinds, Commits

(* What a command goes on with. *)
LEMMA MirrorGotoIs ==
    ASSUME M!Parameters, MirrorInv, NEW p \in Worker, NEW at \in Places \cup {"done"}
    PROVE  LET n == IF at = "done" THEN M!Idle ELSE [M!Idle EXCEPT !.at = at, !.cmd = proc[p].cmd] IN
           /\ n \in ProcState /\ n.cmd \in {M!None, proc[p].cmd}
           /\ n.at = IF at = "done" THEN "idle" ELSE at
           /\ n.cmd = IF at = "done" THEN M!None ELSE proc[p].cmd
<1>1. proc[p].cmd \in Commands \cup {M!None}
  BY MirrorStateIs DEF ProcState
<1>2. M!Idle \in ProcState /\ M!Idle.cmd = M!None /\ M!Idle.at = "idle"
  BY IdleIs
<1>3. CASE at = "done"
  BY <1>2, <1>3
<1>4. CASE at # "done"
  BY <1>1, <1>2, <1>4 DEF ProcState
<1> QED BY <1>3, <1>4

(* A step that changes nothing but the command. *)
LEMMA OnlyKeeps ==
    ASSUME M!Parameters, MirrorInv, NEW p \in Worker, NEW n \in ProcState,
           proc' = [proc EXCEPT ![p] = n], n.cmd \in {M!None, proc[p].cmd}, Knows(n),
           UNCHANGED <<primary, github, forgejo, remotes, acked, commits, overwritten>>
    PROVE  MirrorInv'
<1>1. Knows(n)'
  BY DEF Knows
<1>2. AtHome' /\ Named'
  BY DEF MirrorInv, AtHome, Named
<1>3. forgejo' \in ForgejoState /\ remotes' \in RemotesState
  BY MirrorStateIs
<1> QED BY <1>1, <1>2, <1>3, MirrorStepKeeps

(* A command ends. *)
LEMMA EndKeeps ==
    ASSUME M!Parameters, MirrorInv, NEW p \in Worker, M!End(p),
           UNCHANGED <<primary, github, forgejo, remotes, acked, commits, overwritten>>
    PROVE  MirrorInv'
<1>1. M!Idle \in ProcState /\ M!Idle.cmd = M!None /\ M!Idle.at = "idle" /\ Knows(M!Idle)
  BY IdleIs DEF Knows
<1> QED BY <1>1, OnlyKeeps DEF M!End

(* A command goes on, and changes nothing. *)
LEMMA MirrorGotoKeeps ==
    ASSUME M!Parameters, MirrorInv, NEW p \in Worker, NEW at \in Places \cup {"done"}, M!Goto(p, at),
           at # "listed",
           at = "delete" => proc[p].cmd = "recreate"
                              \/ (proc[p].cmd = "convert" /\ forgejo.kind = "mirror"),
           at = "migrate" => proc[p].cmd \in {"convert", "recreate"},
           at \in {"mirror", "unmirror"} => ~ primary,
           at = "origin" /\ remotes.from = "gh" => remotes.github = "gh",
           UNCHANGED <<primary, github, forgejo, remotes, acked, commits, overwritten>>
    PROVE  MirrorInv'
<1> DEFINE n == IF at = "done" THEN M!Idle ELSE [M!Idle EXCEPT !.at = at, !.cmd = proc[p].cmd]
<1>1. /\ n \in ProcState /\ n.cmd \in {M!None, proc[p].cmd}
      /\ n.at = IF at = "done" THEN "idle" ELSE at
      /\ n.cmd = IF at = "done" THEN M!None ELSE proc[p].cmd
  BY MirrorGotoIs
<1>2. proc' = [proc EXCEPT ![p] = n]
  BY DEF M!Goto
<1> HIDE DEF n
<1>3. Knows(n)
  BY <1>1 DEF Knows
<1> QED BY <1>1, <1>2, <1>3, OnlyKeeps

(* A change of the remotes, made and reported or not. *)
LEMMA RemotesKeep ==
    ASSUME M!Parameters, MirrorInv, NEW p \in Worker, NEW new \in RemotesState,
           NEW at \in Places \cup {"done"}, M!ChangeRemotes(p, new, at), new.from = remotes.from,
           remotes.github = "gh" => new.github = "gh",
           new.from = "gh" => "gh" \in {new.origin, new.github},
           at \in {"reread", "add", "clear", "done"} \/ (at = "origin" /\ new.github = "gh")
    PROVE  MirrorInv'
<1>1. UNCHANGED <<primary, github, forgejo, acked, commits, overwritten>>
  BY DEF M!ChangeRemotes
<1>2. CASE UNCHANGED remotes /\ M!Refused(p)
  BY <1>1, <1>2, EndKeeps DEF M!Refused
<1>3. ASSUME remotes' = new, NEW n \in ProcState, proc' = [proc EXCEPT ![p] = n],
             n.cmd \in {M!None, proc[p].cmd}, n.at \in {"idle", at}
      PROVE  MirrorInv'
  <2>1. Knows(n)'
    BY <1>1, <1>3 DEF Knows
  <2>2. AtHome' /\ Named'
    BY <1>1, <1>3 DEF MirrorInv, AtHome, Named
  <2>3. forgejo' \in ForgejoState /\ forgejo'.kind = forgejo.kind /\ acked' \subseteq acked
    BY <1>1, MirrorStateIs
  <2> QED BY <1>1, <1>3, <2>1, <2>2, <2>3, MirrorStepKeeps
<1>4. CASE remotes' = new /\ M!Goto(p, at)
  <2> DEFINE n == IF at = "done" THEN M!Idle ELSE [M!Idle EXCEPT !.at = at, !.cmd = proc[p].cmd]
  <2>1. n \in ProcState /\ n.cmd \in {M!None, proc[p].cmd} /\ n.at \in {"idle", at}
    BY MirrorGotoIs
  <2>2. proc' = [proc EXCEPT ![p] = n]
    BY <1>4 DEF M!Goto
  <2> HIDE DEF n
  <2> QED BY <1>3, <1>4, <2>1, <2>2
<1>5. CASE remotes' = new /\ M!End(p)
  BY <1>3, <1>5, IdleIs DEF M!End
<1> QED BY <1>2, <1>4, <1>5 DEF M!ChangeRemotes, M!Reported

(* A change of the repository at Forgejo, made and reported or not. *)
LEMMA ForgejoKeeps ==
    ASSUME M!Parameters, MirrorInv, NEW p \in Worker, NEW new \in ForgejoState,
           NEW at \in Places \cup {"done"},
           M!ChangeForgejo(p, new, at), acked' \subseteq acked, UNCHANGED forgejo => acked' = acked,
           new.kind = forgejo.kind \/ proc[p].cmd \in M!Rebuilding,
           primary \/ new.kind # "regular" => acked' \subseteq github \cup overwritten,
           ~ primary /\ new.kind = "regular" => acked' \subseteq new.commits \cup overwritten,
           new.mirrored => ~ primary /\ new.kind # M!None,
           at = "done" \/ (at = "migrate" /\ proc[p].cmd \in {"convert", "recreate"})
              \/ (at = "mirror" /\ ~ primary)
    PROVE  MirrorInv'
<1>1. UNCHANGED <<primary, github, remotes, commits, overwritten>>
  BY DEF M!ChangeForgejo
<1>2. CASE UNCHANGED forgejo /\ M!Refused(p)
  BY <1>1, <1>2, EndKeeps DEF M!Refused
<1>3. ASSUME forgejo' = new, NEW n \in ProcState, proc' = [proc EXCEPT ![p] = n],
             n.cmd \in {M!None, proc[p].cmd}, n.at = "idle" \/ (n.at = at /\ n.cmd = proc[p].cmd)
      PROVE  MirrorInv'
  <2>1. Knows(n)'
    BY <1>1, <1>3 DEF Knows
  <2>2. AtHome' /\ Named'
    BY <1>1, <1>3 DEF MirrorInv, AtHome, Named
  <2>3. remotes' \in RemotesState
    BY <1>1, MirrorStateIs
  <2> QED BY <1>1, <1>3, <2>1, <2>2, <2>3, MirrorStepKeeps
<1>4. CASE forgejo' = new /\ M!Goto(p, at)
  <2> DEFINE n == IF at = "done" THEN M!Idle ELSE [M!Idle EXCEPT !.at = at, !.cmd = proc[p].cmd]
  <2>1. /\ n \in ProcState /\ n.cmd \in {M!None, proc[p].cmd}
        /\ (n.at = "idle" \/ (n.at = at /\ n.cmd = proc[p].cmd))
    BY MirrorGotoIs
  <2>2. proc' = [proc EXCEPT ![p] = n]
    BY <1>4 DEF M!Goto
  <2> HIDE DEF n
  <2> QED BY <1>3, <1>4, <2>1, <2>2
<1>5. CASE forgejo' = new /\ M!End(p)
  BY <1>3, <1>5, IdleIs DEF M!End
<1> QED BY <1>2, <1>4, <1>5 DEF M!ChangeForgejo, M!Reported

-----------------------------------------------------------------------------

(* The forges' and the developer's steps leave the commands what they rely on. *)
LEMMA MirrorWorldKeeps ==
    ASSUME M!Parameters, MirrorInv, UNCHANGED <<primary, remotes, proc>>,
           github' \in Commits, overwritten' \in Commits, commits' \in 0 .. MaxCommit, acked' \subseteq 1 .. commits',
           forgejo' \in ForgejoState, forgejo'.kind = forgejo.kind, AtHome'
    PROVE  MirrorInv'
<1>1. MirrorTyped' /\ Alone' /\ Named'
  BY DEF MirrorInv, MirrorTyped, Alone, Named
<1>2. Known'
  BY DEF MirrorInv, Known, Knows
<1> QED BY <1>1, <1>2 DEF MirrorInv

(* A pull mirror gets what GitHub has, and nothing was acknowledged at it. *)
LEMMA PullMirrorSyncKeeps ==
    ASSUME M!Parameters, MirrorInv, M!PullMirrorSync
    PROVE  MirrorInv'
<1>1. forgejo' \in ForgejoState /\ forgejo'.kind = forgejo.kind /\ forgejo'.mirrored = forgejo.mirrored
  BY MirrorStateIs DEF M!PullMirrorSync, ForgejoState
<1>2. AtHome'
  BY <1>1 DEF M!PullMirrorSync, MirrorInv, AtHome
<1>3. commits \in 0 .. MaxCommit /\ overwritten \in Commits
  BY DEF MirrorInv, MirrorTyped
<1> QED BY <1>1, <1>2, <1>3, MirrorStateIs, MirrorWorldKeeps DEF M!PullMirrorSync

(* What a push mirror overwrites GitHub with has all that was acknowledged,   *)
(* but a pull mirror's, whose loss is counted.                                *)
LEMMA PushMirrorSyncKeeps ==
    ASSUME M!Parameters, MirrorInv, M!PushMirrorSync
    PROVE  MirrorInv'
<1>1. forgejo.commits \in Commits
  BY MirrorStateIs DEF ForgejoState
<1>2. AtHome'
  <2>1. forgejo.mirrored /\ github' = forgejo.commits /\ UNCHANGED <<primary, forgejo, acked>>
    BY DEF M!PushMirrorSync
  <2>2. CASE forgejo.kind = "mirror"
    <3>1. overwritten' = overwritten \cup (github \ forgejo.commits)
      BY <2>2 DEF M!PushMirrorSync
    <3> QED BY <2>1, <2>2, <3>1 DEF MirrorInv, AtHome
  <2>3. CASE forgejo.kind = "regular"
    <3>1. overwritten' = overwritten
      BY <2>3 DEF M!PushMirrorSync
    <3> QED BY <2>1, <2>3, <3>1 DEF MirrorInv, AtHome
  <2>4. forgejo.kind \in {"mirror", "regular"}
    BY <2>1, MirrorStateIs DEF MirrorInv, AtHome, ForgejoState, Kinds
  <2> QED BY <2>2, <2>3, <2>4
<1>4. overwritten' \in Commits /\ github \in Commits
  <2>1. github \in Commits /\ overwritten \in Commits
    BY DEF MirrorInv, MirrorTyped
  <2>2. overwritten' \subseteq overwritten \cup github
    BY DEF M!PushMirrorSync
  <2> QED BY <2>1, <2>2 DEF Commits
<1>3. commits \in 0 .. MaxCommit
  BY DEF MirrorInv, MirrorTyped
<1> QED BY <1>1, <1>2, <1>3, <1>4, MirrorStateIs, MirrorWorldKeeps DEF M!PushMirrorSync

(* A commit is acknowledged where the repository belongs, with all before it. *)
LEMMA CommitKeeps ==
    ASSUME M!Parameters, MirrorInv, M!Commit
    PROVE  MirrorInv'
<1> DEFINE new == M!History(remotes.origin) \cup {commits + 1}
           to == IF remotes.push = {} THEN {remotes.origin} ELSE remotes.push
           reached == {a \in to : M!Takes(a, new)}
           canonical == IF M!Canonical = "gh" THEN {"gh"} ELSE M!AtForgejo
<1>1. /\ commits < MaxCommit /\ commits' = commits + 1
      /\ github' = IF "gh" \in reached THEN new ELSE github
      /\ forgejo' = IF reached \cap M!AtForgejo # {} THEN [forgejo EXCEPT !.commits = new] ELSE forgejo
      /\ acked' = IF reached \cap canonical # {} THEN acked \cup {commits + 1} ELSE acked
      /\ UNCHANGED <<primary, remotes, proc, overwritten>>
  BY DEF M!Commit
<1>2. new \in Commits /\ commits + 1 \in new
  BY <1>1, MirrorStateIs DEF M!History, ForgejoState, Commits
<1>3. "gh" \in reached => github \subseteq new
  BY DEF M!Takes, M!History
<1>4. reached \cap M!AtForgejo # {} => forgejo.commits \subseteq new /\ forgejo.kind = "regular"
  BY DEF M!Takes, M!History, M!AtForgejo
<1>5. canonical = IF primary \/ forgejo.kind # "regular" THEN {"gh"} ELSE M!AtForgejo
  BY DEF M!Canonical
<1> HIDE DEF new, to, reached, canonical
<1>6. github' \in Commits /\ github \subseteq github'
  BY <1>1, <1>2, <1>3, MirrorStateIs
<1>7. /\ forgejo' \in ForgejoState /\ forgejo'.kind = forgejo.kind
      /\ forgejo'.mirrored = forgejo.mirrored /\ forgejo.commits \subseteq forgejo'.commits
  BY <1>1, <1>2, <1>4, MirrorStateIs DEF ForgejoState
<1>8. commits' \in 0 .. MaxCommit /\ acked' \subseteq 1 .. commits' /\ overwritten' \in Commits
  BY <1>1, MirrorStateIs DEF MirrorInv, MirrorTyped
<1>9. primary \/ forgejo.kind # "regular" => acked' \subseteq github' \cup overwritten
  <2> SUFFICES ASSUME primary \/ forgejo.kind # "regular"
               PROVE  acked' \subseteq github' \cup overwritten
    OBVIOUS
  <2>1. acked \subseteq github' \cup overwritten /\ canonical = {"gh"}
    BY <1>5, <1>6 DEF MirrorInv, AtHome
  <2>2. reached \cap canonical # {} => commits + 1 \in github'
    BY <1>1, <1>2, <2>1
  <2> QED BY <1>1, <2>1, <2>2
<1>10. ~ primary /\ forgejo.kind = "regular" => acked' \subseteq forgejo'.commits \cup overwritten
  <2> SUFFICES ASSUME ~ primary, forgejo.kind = "regular"
               PROVE  acked' \subseteq forgejo'.commits \cup overwritten
    OBVIOUS
  <2>1. acked \subseteq forgejo'.commits \cup overwritten /\ canonical = M!AtForgejo
    BY <1>5, <1>7 DEF MirrorInv, AtHome
  <2>2. reached \cap canonical # {} => forgejo'.commits = new
    BY <1>1, <2>1, MirrorStateIs DEF ForgejoState
  <2> QED BY <1>1, <1>2, <2>1, <2>2
<1>11. AtHome'
  BY <1>1, <1>7, <1>9, <1>10 DEF MirrorInv, AtHome
<1> QED BY <1>1, <1>6, <1>7, <1>8, <1>11, MirrorWorldKeeps

(* A command begins: an operator's when no other of the operator's is at work. *)
LEMMA BeginKeeps ==
    ASSUME M!Parameters, MirrorInv, NEW p \in Worker, NEW command \in Commands, M!Begin(p, command)
    PROVE  MirrorInv'
<1> DEFINE n == [M!Idle EXCEPT !.at = "listed", !.cmd = command, !.kind = forgejo.kind]
<1>1. n \in ProcState /\ n.cmd = command /\ n.at = "listed" /\ n.kind = forgejo.kind
  BY MirrorStateIs, IdleIs DEF ProcState, Places, ForgejoState
<1>2. proc' = [proc EXCEPT ![p] = n] /\ UNCHANGED <<primary, github, forgejo, remotes, acked, commits, overwritten>>
  BY DEF M!Begin
<1> HIDE DEF n
<1>3. /\ proc' \in [Worker -> ProcState] /\ proc'[p] = n
      /\ \A q \in Worker : q # p => proc'[q] = proc[q]
  BY <1>1, <1>2 DEF MirrorInv, MirrorTyped
<1>4. MirrorTyped' /\ AtHome' /\ Named'
  BY <1>2, <1>3 DEF MirrorInv, MirrorTyped, AtHome, Named
<1>5. Alone'
  <2> SUFFICES ASSUME NEW i \in Worker, NEW k \in Worker, i # k
               PROVE  {proc'[i].cmd, proc'[k].cmd} \cap (M!Timed \cup {M!None}) # {}
    BY DEF Alone
  <2>1. CASE i # p /\ k # p
    BY <1>3, <2>1 DEF MirrorInv, Alone
  <2>2. command \notin M!Timed => \A q \in Worker : proc[q].cmd \in M!Timed \cup {M!None}
    BY DEF M!Begin
  <2>3. CASE i = p
    BY <1>1, <1>3, <2>2, <2>3
  <2>4. CASE k = p
    BY <1>1, <1>3, <2>2, <2>4
  <2> QED BY <2>1, <2>3, <2>4
<1>6. Known'
  <2> SUFFICES ASSUME NEW q \in Worker PROVE Knows(proc[q])'
    BY DEF Known
  <2>1. CASE q = p
    BY <1>1, <1>2, <1>3, <2>1 DEF Knows
  <2>2. CASE q # p
    BY <1>2, <1>3, <2>2, MirrorStateIs DEF Knows
  <2> QED BY <2>1, <2>2
<1> QED BY <1>4, <1>5, <1>6 DEF MirrorInv

(* A command dies. *)
LEMMA DieKeeps ==
    ASSUME M!Parameters, MirrorInv, NEW p \in Worker, M!Die(p)
    PROVE  MirrorInv'
BY EndKeeps DEF M!Die

-----------------------------------------------------------------------------

(* sync. *)
LEMMA SyncReadKeeps ==
    ASSUME M!Parameters, MirrorInv, NEW p \in Worker, M!SyncRead(p)
    PROVE  MirrorInv'
<1>1. CASE M!End(p)
  BY <1>1, EndKeeps DEF M!SyncRead, M!Only
<1> DEFINE n == [proc[p] EXCEPT !.push = remotes.push, !.kind = M!None,
                                !.at = IF "ssh" \in remotes.push THEN "unset" ELSE "check"]
<1>2. CASE proc' = [proc EXCEPT ![p] = n]
  <2>1. n \in ProcState /\ n.cmd = proc[p].cmd /\ n.at \in {"unset", "check"}
    BY MirrorStateIs DEF ProcState, Places, Kinds, RemotesState
  <2> HIDE DEF n
  <2>2. Knows(n)
    BY <2>1 DEF Knows
  <2> QED BY <1>2, <2>1, <2>2, OnlyKeeps DEF M!SyncRead, M!Only
<1> QED BY <1>1, <1>2 DEF M!SyncRead, M!Only

(* sync reads the push URLs again. *)
LEMMA SyncRereadKeeps ==
    ASSUME M!Parameters, MirrorInv, NEW p \in Worker, M!SyncReread(p)
    PROVE  MirrorInv'
<1> DEFINE n == [proc[p] EXCEPT !.push = remotes.push, !.at = "check"]
<1>1. proc' = [proc EXCEPT ![p] = n]
  BY DEF M!SyncReread, M!Only
<1>2. n \in ProcState /\ n.cmd = proc[p].cmd /\ n.at = "check"
  BY MirrorStateIs DEF ProcState, Places, RemotesState
<1> HIDE DEF n
<1>3. Knows(n)
  BY <1>2 DEF Knows
<1> QED BY <1>1, <1>2, <1>3, OnlyKeeps DEF M!SyncReread, M!Only

(* sync looks whether the URL is there. *)
LEMMA SyncCheckKeeps ==
    ASSUME M!Parameters, MirrorInv, NEW p \in Worker, M!SyncCheck(p)
    PROVE  MirrorInv'
<1>1. CASE M!End(p)
  BY <1>1, EndKeeps DEF M!SyncCheck, M!Only
<1>2. ASSUME NEW at \in {"own", "add"}, M!Goto(p, at) PROVE MirrorInv'
  BY <1>2, MirrorGotoKeeps DEF M!SyncCheck, M!Only, Places
<1> QED BY <1>1, <1>2 DEF M!SyncCheck, M!Only

(* sync changes push URLs alone. *)
LEMMA PushURLsKeep ==
    ASSUME M!Parameters, MirrorInv, NEW p \in Worker, NEW push \in SUBSET M!Address,
           NEW at \in {"reread", "add", "clear", "done"},
           M!ChangeRemotes(p, [remotes EXCEPT !.push = push], at)
    PROVE  MirrorInv'
<1> DEFINE new == [remotes EXCEPT !.push = push]
<1>1. /\ new \in RemotesState /\ new.from = remotes.from /\ new.github = remotes.github
      /\ new.origin = remotes.origin
  BY MirrorStateIs DEF RemotesState
<1>2. new.from = "gh" => "gh" \in {new.origin, new.github}
  BY <1>1 DEF MirrorInv, Named
<1>3. M!ChangeRemotes(p, new, at) /\ at \in Places \cup {"done"}
  BY DEF Places
<1> HIDE DEF new
<1> QED BY <1>1, <1>2, <1>3, RemotesKeep

(* sync changes the push URLs. *)
LEMMA SyncKeeps ==
    ASSUME M!Parameters, MirrorInv, NEW p \in Worker, M!SyncUnset(p) \/ M!SyncOwn(p) \/ M!SyncAdd(p)
    PROVE  MirrorInv'
<1>1. remotes.push \subseteq M!Address /\ remotes.origin \in M!Address
  BY MirrorStateIs DEF RemotesState
<1>2. CASE M!SyncUnset(p)
  <2>1. remotes.push \ {"ssh"} \in SUBSET M!Address
    BY <1>1
  <2> QED BY <1>2, <2>1, PushURLsKeep DEF M!SyncUnset
<1>3. CASE M!SyncOwn(p)
  <2>1. remotes.push \cup {remotes.origin} \in SUBSET M!Address
    BY <1>1
  <2> QED BY <1>3, <2>1, PushURLsKeep DEF M!SyncOwn
<1>4. CASE M!SyncAdd(p)
  <2>1. remotes.push \cup {"https"} \in SUBSET M!Address
    BY <1>1 DEF M!Address
  <2> QED BY <1>4, <2>1, PushURLsKeep DEF M!SyncAdd
<1> QED BY <1>2, <1>3, <1>4

-----------------------------------------------------------------------------

(* primary. *)
LEMMA PrimaryReadKeeps ==
    ASSUME M!Parameters, MirrorInv, NEW p \in Worker, M!PrimaryRead(p)
    PROVE  MirrorInv'
<1>1. CASE M!End(p)
  BY <1>1, EndKeeps DEF M!PrimaryRead, M!Only
<1>2. CASE M!Goto(p, M!PrimaryFirst(proc[p].kind))
  <2> DEFINE at == M!PrimaryFirst(proc[p].kind)
  <2>1. at \in {"unpush", "record", "origin"} /\ (at = "origin" => remotes.origin # "gh")
    BY DEF M!PrimaryFirst
  <2>2. at = "origin" /\ remotes.from = "gh" => remotes.github = "gh"
    BY <2>1 DEF MirrorInv, Named
  <2>3. M!Goto(p, at) /\ UNCHANGED <<primary, github, forgejo, remotes, acked, commits, overwritten>>
    BY <1>2 DEF M!PrimaryRead, M!Only
  <2> HIDE DEF at
  <2> QED BY <2>1, <2>2, <2>3, MirrorGotoKeeps DEF Places
<1> QED BY <1>1, <1>2 DEF M!PrimaryRead, M!Only

(* GitHub's address is recorded. *)
LEMMA PrimaryRecordKeeps ==
    ASSUME M!Parameters, MirrorInv, NEW p \in Worker, M!PrimaryRecord(p)
    PROVE  MirrorInv'
<1> DEFINE new == [remotes EXCEPT !.github = "gh"]
<1>1. new \in RemotesState /\ new.from = remotes.from /\ new.github = "gh"
  BY MirrorStateIs DEF RemotesState
<1>2. M!ChangeRemotes(p, new, "origin") /\ "origin" \in Places
  BY DEF M!PrimaryRecord, Places
<1> HIDE DEF new
<1> QED BY <1>1, <1>2, RemotesKeep

(* The origin is replaced when the remote github is GitHub's. *)
LEMMA PrimaryOriginKeeps ==
    ASSUME M!Parameters, MirrorInv, NEW p \in Worker, M!PrimaryOrigin(p)
    PROVE  MirrorInv'
<1> DEFINE new == [remotes EXCEPT !.origin = "ssh"]
<1>1. new \in RemotesState /\ new.from = remotes.from /\ new.github = remotes.github
  BY MirrorStateIs DEF RemotesState, M!Address
<1>2. M!ChangeRemotes(p, new, "clear") /\ "clear" \in Places
  BY DEF M!PrimaryOrigin, Places
<1>3. remotes.from = "gh" => remotes.github = "gh"
  BY MirrorStateIs DEF M!PrimaryOrigin, M!At, Knows
<1> HIDE DEF new
<1> QED BY <1>1, <1>2, <1>3, RemotesKeep

(* The push URLs are removed. *)
LEMMA PrimaryClearKeeps ==
    ASSUME M!Parameters, MirrorInv, NEW p \in Worker, M!PrimaryClear(p)
    PROVE  MirrorInv'
<1>1. {} \in SUBSET M!Address
  OBVIOUS
<1> QED BY <1>1, PushURLsKeep DEF M!PrimaryClear

(* A pull mirror's checkout has GitHub's origin again. *)
LEMMA PrimaryRestoreKeeps ==
    ASSUME M!Parameters, MirrorInv, NEW p \in Worker, M!PrimaryRestore(p)
    PROVE  MirrorInv'
<1> DEFINE new == [remotes EXCEPT !.origin = "gh"]
<1>1. /\ new \in RemotesState /\ new.from = remotes.from /\ new.github = remotes.github
      /\ new.origin = "gh"
  BY MirrorStateIs DEF RemotesState, M!Address
<1>2. M!ChangeRemotes(p, new, "done")
  BY DEF M!PrimaryRestore
<1> HIDE DEF new
<1> QED BY <1>1, <1>2, RemotesKeep

(* A push URL that could not be removed does not end the command. *)
LEMMA PrimaryUnpushKeeps ==
    ASSUME M!Parameters, MirrorInv, NEW p \in Worker, M!PrimaryUnpush(p)
    PROVE  MirrorInv'
<1> DEFINE at == IF remotes.origin \in M!AtForgejo THEN "restore" ELSE "done"
           n == IF at = "done" THEN M!Idle ELSE [M!Idle EXCEPT !.at = at, !.cmd = proc[p].cmd]
<1>1. at \in Places \cup {"done"} /\ at \in {"restore", "done"}
  BY DEF Places
<1>2. n \in ProcState /\ n.cmd \in {M!None, proc[p].cmd} /\ n.at \in {"idle", "restore"}
  <2> HIDE DEF at
  <2> QED BY <1>1, MirrorGotoIs
<1>3. proc' = [proc EXCEPT ![p] = n]
  BY DEF M!PrimaryUnpush, M!Goto
<1> HIDE DEF n, at
<1>4. UNCHANGED <<primary, github, forgejo, acked, commits, overwritten>>
  BY DEF M!PrimaryUnpush
<1>5. /\ remotes' \in RemotesState /\ remotes'.from = remotes.from /\ remotes'.github = remotes.github
      /\ remotes'.origin = remotes.origin
  BY MirrorStateIs DEF M!PrimaryUnpush, RemotesState
<1>6. AtHome' /\ Named'
  BY <1>4, <1>5 DEF MirrorInv, AtHome, Named
<1>7. ASSUME NEW m \in ProcState, m = n PROVE MirrorInv'
  <2>1. Knows(m)'
    BY <1>2, <1>7 DEF Knows
  <2>2. proc' = [proc EXCEPT ![p] = m] /\ m.cmd \in {M!None, proc[p].cmd}
    BY <1>2, <1>3, <1>7
  <2> QED BY <1>4, <1>5, <1>6, <2>1, <2>2, MirrorStateIs, MirrorStepKeeps
<1> QED BY <1>2, <1>7

-----------------------------------------------------------------------------

(* create, convert and recreate. *)
LEMMA CreateKeeps ==
    ASSUME M!Parameters, MirrorInv, NEW p \in Worker, M!Create(p)
    PROVE  MirrorInv'
<1>1. CASE M!Only(M!End(p))
  BY <1>1, EndKeeps DEF M!Only
<1> DEFINE new == [M!Gone EXCEPT !.kind = "mirror", !.commits = github]
<1>2. CASE forgejo.kind = M!None /\ M!ChangeForgejo(p, new, "done") /\ UNCHANGED acked
  <2>1. new \in ForgejoState /\ new.kind = "mirror" /\ ~ new.mirrored
    BY MirrorStateIs DEF M!Gone, ForgejoState, Kinds, Commits
  <2>2. proc[p].cmd \in M!Rebuilding
    BY DEF M!Create, M!At, M!Rebuilding
  <2>3. acked \subseteq github \cup overwritten
    BY <1>2 DEF MirrorInv, AtHome, M!None
  <2> HIDE DEF new
  <2> QED BY <1>2, <2>1, <2>2, <2>3, ForgejoKeeps
<1> QED BY <1>1, <1>2 DEF M!Create

(* convert goes on with a pull mirror alone, which nobody else replaces. *)
LEMMA ChooseKeeps ==
    ASSUME M!Parameters, MirrorInv, NEW p \in Worker, M!Choose(p)
    PROVE  MirrorInv'
<1>1. CASE M!End(p)
  BY <1>1, EndKeeps DEF M!Choose, M!Only
<1> DEFINE at == IF proc[p].kind = M!None THEN "migrate" ELSE "delete"
<1>2. CASE M!Goto(p, at) /\ (proc[p].cmd = "convert" => proc[p].kind = "mirror")
  <2>1. proc[p].cmd = "convert" => forgejo.kind = "mirror"
    BY <1>2, MirrorStateIs DEF M!Choose, Knows
  <2>2. at \in {"migrate", "delete"} /\ proc[p].cmd \in {"convert", "recreate"}
    BY DEF M!Choose
  <2>3. M!Goto(p, at) /\ UNCHANGED <<primary, github, forgejo, remotes, acked, commits, overwritten>>
    BY <1>2 DEF M!Choose, M!Only
  <2> HIDE DEF at
  <2> QED BY <2>1, <2>2, <2>3, MirrorGotoKeeps DEF Places
<1> QED BY <1>1, <1>2 DEF M!Choose, M!Only, M!Converted

(* What only Forgejo has goes with a deletion: none of it was acknowledged     *)
(* there for a pull mirror, and who recreates gives it up.                     *)
LEMMA DeleteKeeps ==
    ASSUME M!Parameters, MirrorInv, NEW p \in Worker, M!Delete(p)
    PROVE  MirrorInv'
<1>1. M!Gone \in ForgejoState /\ M!Gone.kind = M!None /\ ~ M!Gone.mirrored
  BY DEF M!Gone, ForgejoState, Kinds, Commits
<1>2. proc[p].cmd = "recreate" \/ (proc[p].cmd = "convert" /\ forgejo.kind = "mirror")
  BY MirrorStateIs DEF M!Delete, Knows
<1>3. acked' = IF proc[p].cmd = "recreate" /\ forgejo' # forgejo THEN acked \cap github ELSE acked
  BY DEF M!Delete
<1>4. M!ChangeForgejo(p, M!Gone, "migrate")
  BY DEF M!Delete
<1>5. CASE proc[p].cmd = "recreate" /\ forgejo' = forgejo /\ forgejo # M!Gone
  <2>1. M!Refused(p) /\ UNCHANGED <<primary, github, forgejo, remotes, acked, commits, overwritten>>
    BY <1>3, <1>4, <1>5 DEF M!ChangeForgejo
  <2> QED BY <2>1, EndKeeps DEF M!Refused
<1>6. CASE ~ (proc[p].cmd = "recreate" /\ forgejo' = forgejo /\ forgejo # M!Gone)
  <2>1. acked' \subseteq github \cup overwritten
    <3>1. CASE proc[p].cmd = "recreate" /\ forgejo' # forgejo
      BY <1>3, <3>1
    <3>2. CASE proc[p].cmd = "recreate" /\ forgejo' = forgejo /\ forgejo = M!Gone
      BY <1>1, <1>3, <3>2 DEF MirrorInv, AtHome, M!None
    <3>3. CASE proc[p].cmd # "recreate"
      BY <1>2, <1>3, <3>3 DEF MirrorInv, AtHome
    <3> QED BY <1>6, <3>1, <3>2, <3>3
  <2>2. acked' \subseteq acked /\ (UNCHANGED forgejo => acked' = acked)
    BY <1>3
  <2> QED BY <1>1, <1>2, <1>4, <2>1, <2>2, ForgejoKeeps DEF M!Rebuilding, Places, M!None
<1> QED BY <1>5, <1>6

(* What is migrated is what GitHub has, to where Forgejo has nothing. *)
LEMMA MigrateKeeps ==
    ASSUME M!Parameters, MirrorInv, NEW p \in Worker, M!Migrate(p)
    PROVE  MirrorInv'
<1>1. CASE M!Only(M!End(p))
  BY <1>1, EndKeeps DEF M!Only
<1> DEFINE new == [M!Gone EXCEPT !.kind = "regular", !.commits = github]
<1>2. CASE forgejo.kind = M!None /\ M!ChangeForgejo(p, new, "done") /\ UNCHANGED acked
  <2>1. new \in ForgejoState /\ new.kind = "regular" /\ new.commits = github /\ ~ new.mirrored
    BY MirrorStateIs DEF M!Gone, ForgejoState, Kinds, Commits
  <2>2. proc[p].cmd \in M!Rebuilding
    BY MirrorStateIs DEF M!Migrate, Knows, M!Rebuilding
  <2>3. acked \subseteq github \cup overwritten
    BY <1>2 DEF MirrorInv, AtHome, M!None
  <2> HIDE DEF new
  <2> QED BY <1>2, <2>1, <2>2, <2>3, ForgejoKeeps
<1> QED BY <1>1, <1>2 DEF M!Migrate

-----------------------------------------------------------------------------

(* pull: what is pushed is all that Forgejo has, and more. *)
LEMMA CloneKeeps ==
    ASSUME M!Parameters, MirrorInv, NEW p \in Worker, M!Clone(p)
    PROVE  MirrorInv'
<1>1. CASE M!End(p)
  BY <1>1, EndKeeps DEF M!Clone, M!Only
<1> DEFINE n == [proc[p] EXCEPT !.clone = github, !.kind = M!None, !.at = "push"]
<1>2. CASE proc' = [proc EXCEPT ![p] = n]
  <2>1. n \in ProcState /\ n.cmd = proc[p].cmd /\ n.at = "push"
    BY MirrorStateIs DEF ProcState, Places, Kinds
  <2> HIDE DEF n
  <2>2. Knows(n)
    BY <2>1 DEF Knows
  <2> QED BY <1>2, <2>1, <2>2, OnlyKeeps DEF M!Clone, M!Only
<1> QED BY <1>1, <1>2 DEF M!Clone, M!Only

(* A push without force takes nothing away. *)
LEMMA PushKeeps ==
    ASSUME M!Parameters, MirrorInv, NEW p \in Worker, M!Push(p)
    PROVE  MirrorInv'
<1>1. CASE M!Only(M!End(p))
  BY <1>1, EndKeeps DEF M!Only
<1> DEFINE new == [forgejo EXCEPT !.commits = proc[p].clone]
<1>2. CASE M!Takes("https", proc[p].clone) /\ M!ChangeForgejo(p, new, "done") /\ UNCHANGED acked
  <2>1. proc[p].clone \in Commits
    BY MirrorStateIs DEF ProcState
  <2>2. /\ new \in ForgejoState /\ new.kind = forgejo.kind /\ new.mirrored = forgejo.mirrored
        /\ new.commits = proc[p].clone
    BY <2>1, MirrorStateIs DEF ForgejoState
  <2>3. forgejo.commits \subseteq proc[p].clone /\ forgejo.kind = "regular"
    BY <1>2 DEF M!Takes, M!History, M!AtForgejo
  <2> HIDE DEF new
  <2>4. /\ primary => acked \subseteq github \cup overwritten
        /\ ~ primary => acked \subseteq new.commits \cup overwritten
        /\ new.mirrored => ~ primary /\ new.kind # M!None
    BY <2>2, <2>3 DEF MirrorInv, AtHome, M!None
  <2> QED BY <1>2, <2>2, <2>3, <2>4, ForgejoKeeps
<1> QED BY <1>1, <1>2 DEF M!Push

(* mirror-github. *)
LEMMA MirrorReadKeeps ==
    ASSUME M!Parameters, MirrorInv, NEW p \in Worker, M!MirrorRead(p)
    PROVE  MirrorInv'
<1>1. CASE M!End(p)
  BY <1>1, EndKeeps DEF M!MirrorRead, M!Only
<1>2. ASSUME NEW at \in {"unmirror", "mirror"}, M!Goto(p, at), ~ primary PROVE MirrorInv'
  BY <1>2, MirrorGotoKeeps DEF M!MirrorRead, M!Only, Places
<1> QED BY <1>1, <1>2 DEF M!MirrorRead, M!Only

(* A push mirror is deleted or made. *)
LEMMA MirroredKeeps ==
    ASSUME M!Parameters, MirrorInv, NEW p \in Worker, NEW mirrored \in BOOLEAN,
           NEW at \in {"mirror", "done"},
           M!ChangeForgejo(p, [forgejo EXCEPT !.mirrored = mirrored], at), UNCHANGED acked,
           ~ primary, mirrored => forgejo.kind # M!None
    PROVE  MirrorInv'
<1> DEFINE new == [forgejo EXCEPT !.mirrored = mirrored]
<1>1. /\ new \in ForgejoState /\ new.kind = forgejo.kind /\ new.mirrored = mirrored
      /\ new.commits = forgejo.commits
  BY MirrorStateIs DEF ForgejoState
<1>2. M!ChangeForgejo(p, new, at) /\ at \in Places \cup {"done"}
  BY DEF Places
<1> HIDE DEF new
<1>3. /\ new.kind # "regular" => acked \subseteq github \cup overwritten
      /\ new.kind = "regular" => acked \subseteq new.commits \cup overwritten
  BY <1>1 DEF MirrorInv, AtHome
<1> QED BY <1>1, <1>2, <1>3, ForgejoKeeps

(* A push mirror is deleted. *)
LEMMA MirrorDeleteKeeps ==
    ASSUME M!Parameters, MirrorInv, NEW p \in Worker, M!MirrorDelete(p)
    PROVE  MirrorInv'
<1>1. ~ primary
  BY MirrorStateIs DEF M!MirrorDelete, M!At, Knows
<1> QED BY <1>1, MirroredKeeps DEF M!MirrorDelete

(* A push mirror is made of what Forgejo has, a pull mirror too. *)
LEMMA MirrorCreateKeeps ==
    ASSUME M!Parameters, MirrorInv, NEW p \in Worker, M!MirrorCreate(p)
    PROVE  MirrorInv'
<1>1. CASE M!Only(M!End(p))
  BY <1>1, EndKeeps DEF M!Only
<1>2. CASE /\ forgejo.kind # M!None /\ UNCHANGED acked
           /\ M!ChangeForgejo(p, [forgejo EXCEPT !.mirrored = TRUE], "done")
  <2>1. ~ primary
    BY MirrorStateIs DEF M!MirrorCreate, Knows
  <2> QED BY <1>2, <2>1, MirroredKeeps
<1> QED BY <1>1, <1>2 DEF M!MirrorCreate

-----------------------------------------------------------------------------

(* The invariant holds at first. *)
LEMMA MirrorInvInit ==
    ASSUME M!Parameters, M!Init
    PROVE  MirrorInv
<1>1. M!Idle \in ProcState /\ M!Idle.cmd = M!None /\ M!Idle.at = "idle"
  BY IdleIs
<1>2. proc \in [Worker -> ProcState] /\ \A p \in Worker : proc[p] = M!Idle
  BY <1>1 DEF M!Init
<1>3. forgejo \in ForgejoState /\ ~ forgejo.mirrored
  BY DEF M!Init, M!Gone, ForgejoState, Kinds, Commits
<1>4. remotes \in RemotesState /\ remotes.origin = remotes.from
  BY DEF M!Init, RemotesState, M!Address
<1>5. MirrorTyped
  BY <1>2, <1>3, <1>4 DEF M!Init, MirrorTyped, M!Parameters, Commits
<1>6. Alone /\ Known
  BY <1>1, <1>2 DEF Alone, Known, Knows
<1>7. AtHome /\ Named
  BY <1>3, <1>4 DEF M!Init, AtHome, Named
<1> QED BY <1>5, <1>6, <1>7 DEF MirrorInv

(* Every step keeps the invariant. *)
LEMMA MirrorInvNext ==
    ASSUME M!Parameters, MirrorInv, [M!Next]_M!vars
    PROVE  MirrorInv'
<1>1. CASE M!PullMirrorSync \/ M!PushMirrorSync \/ M!Commit
  BY <1>1, PullMirrorSyncKeeps, PushMirrorSyncKeeps, CommitKeeps
<1>2. ASSUME NEW p \in Worker, NEW command \in Commands, M!Begin(p, command) PROVE MirrorInv'
  BY <1>2, BeginKeeps
<1>3. ASSUME NEW p \in Worker,
             \/ M!SyncRead(p) \/ M!SyncUnset(p) \/ M!SyncReread(p) \/ M!SyncCheck(p)
             \/ M!SyncOwn(p) \/ M!SyncAdd(p)
             \/ M!Die(p)
      PROVE  MirrorInv'
  BY <1>3, SyncReadKeeps, SyncRereadKeeps, SyncCheckKeeps, SyncKeeps, DieKeeps
<1>4. ASSUME NEW p \in Worker,
             \/ M!PrimaryRead(p) \/ M!PrimaryRecord(p) \/ M!PrimaryOrigin(p) \/ M!PrimaryClear(p)
             \/ M!PrimaryUnpush(p) \/ M!PrimaryRestore(p)
      PROVE  MirrorInv'
  BY <1>4, PrimaryReadKeeps, PrimaryRecordKeeps, PrimaryOriginKeeps, PrimaryClearKeeps,
     PrimaryUnpushKeeps, PrimaryRestoreKeeps
<1>5. ASSUME NEW p \in Worker,
             \/ M!Create(p) \/ M!Choose(p) \/ M!Delete(p) \/ M!Migrate(p) \/ M!Clone(p) \/ M!Push(p)
             \/ M!MirrorRead(p) \/ M!MirrorDelete(p) \/ M!MirrorCreate(p)
      PROVE  MirrorInv'
  BY <1>5, CreateKeeps, ChooseKeeps, DeleteKeeps, MigrateKeeps, CloneKeeps, PushKeeps,
     MirrorReadKeeps, MirrorDeleteKeeps, MirrorCreateKeeps
<1>6. CASE UNCHANGED M!vars
  BY <1>6 DEF M!vars, MirrorInv, MirrorTyped, Alone, Known, Knows, AtHome, Named
<1> QED BY <1>1, <1>2, <1>3, <1>4, <1>5, <1>6 DEF M!Next, Commands

(* The invariant always holds. *)
LEMMA MirrorInvariance ==
    ASSUME M!Parameters
    PROVE  M!Spec => []MirrorInv
<1>1. M!Init => MirrorInv
  BY MirrorInvInit
<1>2. MirrorInv /\ [M!Next]_M!vars => MirrorInv'
  BY MirrorInvNext
<1> QED BY <1>1, <1>2, PTL DEF M!Spec

(* Every part of the state has its type, for any processes and commits. *)
THEOREM MirrorTypeCorrect ==
    ASSUME M!Parameters
    PROVE  M!Spec => []M!TypeOK
<1>1. MirrorInv => M!TypeOK
  <2> SUFFICES ASSUME MirrorInv PROVE M!TypeOK
    OBVIOUS
  <2>1. \A p \in Worker :
           proc[p].kind \in {M!None, "mirror", "regular"} /\ proc[p].push \subseteq M!Address
    BY DEF MirrorInv, MirrorTyped, ProcState, Kinds
  <2>2. forgejo \in [kind : {M!None, "mirror", "regular"},
                    commits : SUBSET (1 .. MaxCommit), mirrored : BOOLEAN]
    BY DEF MirrorInv, MirrorTyped, ForgejoState, Kinds, Commits
  <2> QED BY <2>1, <2>2 DEF MirrorInv, MirrorTyped, M!TypeOK, RemotesState, Commits
<1> QED BY <1>1, MirrorInvariance, PTL

(* No commit that reached the forge it belongs to is lost but one that the    *)
(* push mirror of a pull mirror overwrote, however the timers' commands, an   *)
(* operator's, the mirrors, lost responses and kills between a deletion and   *)
(* its migration meet; and a checkout cloned from GitHub keeps GitHub's       *)
(* address (cmdConvert, cmdMirrorGitHub, cmdPull, ensureForgejoPrimary).      *)
THEOREM NothingIsLostByAnyCommand ==
    ASSUME M!Parameters
    PROVE  M!Spec => []M!NothingIsLost
<1>1. MirrorInv => M!NothingIsLost
  BY DEF MirrorInv, AtHome, Named, M!NothingIsLost
<1> QED BY <1>1, MirrorInvariance, PTL

-----------------------------------------------------------------------------
(***************************************************************************)
(* FindingsFiling.  The lock lets one command work alone (FilingAlone);    *)
(* Sees says that it knows every open issue of revkit's, from the list it  *)
(* read or because it made it, and Files that it made none for a finding   *)
(* it has still to file.  So there is none that the issue it is about to   *)
(* create would double (Doubles), whoever opens and closes issues beside.  *)
(***************************************************************************)

CONSTANTS Finding, Title, MaxIssues, MaxChanges
VARIABLES store, issues, changes

F == INSTANCE FindingsFiling


CommandState == [at : {"idle", "list", "next", "create", "mark"},
                 chosen : Seq([id : Finding, title : Title]), fresh : BOOLEAN,
                 listed : SUBSET Nat, made : SUBSET Nat, issue : Nat]

\* The type invariant, of the whole state.
FilingTyped ==
    /\ store \in [Finding -> F!Stored]
    /\ issues \in Seq(F!Issue) /\ Len(issues) <= MaxIssues
    /\ cmd \in [Command -> CommandState]
    /\ faults \in 0 .. MaxFaults /\ changes \in 0 .. MaxChanges

\* The filing lock: one command is at work.
FilingAlone ==
    /\ \A c, d \in Command : c # d => "idle" \in {cmd[c].at, cmd[d].at}
    /\ \A c \in Command : cmd[c].at = "idle" => cmd[c] = F!Idle

\* An open issue of revkit's.
Ours(i) == issues[i].open /\ issues[i].finding # F!None

\* A command at work knows all of them, from its list or because it made them;
\* it made none for a finding that it has still to file, and there is none that
\* the issue it is about to create would double.
Sees(n) ==
    /\ n.listed \cup n.made \subseteq DOMAIN issues /\ n.issue \in {0} \cup DOMAIN issues
    /\ n.at \in {"next", "create", "mark"} =>
          \A i \in DOMAIN issues : Ours(i) => i \in n.listed \cup n.made
Files(n) ==
    /\ n.at \in {"create", "mark"} => n.chosen # <<>>
    /\ n.at = "mark" => n.issue # 0
    /\ \A j, k \in DOMAIN n.chosen : j # k => n.chosen[j].id # n.chosen[k].id
    /\ \A i \in n.made : \A k \in DOMAIN n.chosen :
          (n.at = "mark" => k # 1) => issues[i].finding # n.chosen[k].id
Doubles(i, n) ==
    /\ Ours(i) /\ issues[i].title = n.chosen[1].title
    /\ issues[i].finding = n.chosen[1].id \/ ~ n.fresh
Sound(n) == Sees(n) /\ Files(n) /\ (n.at = "create" => \A i \in DOMAIN issues : ~ Doubles(i, n))

FilingOnce ==
    \A i, j \in DOMAIN issues :
        (i # j /\ Ours(i) /\ Ours(j) /\ issues[i].title = issues[j].title) =>
           issues[i].finding # issues[j].finding /\ (issues[i].fresh \/ issues[j].fresh)
FilingNamed == \A f \in Finding : store[f].status = "filed" => store[f].issue \in DOMAIN issues

FilingInv == FilingTyped /\ FilingAlone /\ (\A c \in Command : Sound(cmd[c])) /\ FilingOnce
/\ FilingNamed

-----------------------------------------------------------------------------

(* Sequences as functions. *)
LEMMA FunctionIsSeq ==
    ASSUME NEW S, NEW n \in Nat, NEW f \in [1 .. n -> S]
    PROVE  f \in Seq(S)
OBVIOUS

(* The first of a sequence. *)
LEMMA HeadOfSeq ==
    ASSUME NEW S, NEW s \in Seq(S), s # <<>>
    PROVE  Head(s) = s[1] /\ s[1] \in S /\ 1 \in DOMAIN s
OBVIOUS

(* The parts of the state. *)
LEMMA FilingStateIs ==
    ASSUME F!Parameters, FilingInv
    PROVE  /\ store \in [Finding -> F!Stored] /\ issues \in Seq(F!Issue) /\ Len(issues) \in Nat
           /\ Len(issues) <= MaxIssues /\ DOMAIN issues = 1 .. Len(issues)
           /\ \A i \in DOMAIN issues : issues[i] \in F!Issue
           /\ \A c \in Command : cmd[c] \in CommandState /\ Sound(cmd[c])
           /\ faults \in 0 .. MaxFaults /\ changes \in 0 .. MaxChanges
           /\ MaxIssues \in Nat /\ MaxFaults \in Nat /\ MaxChanges \in Nat
BY DEF FilingInv, FilingTyped, F!Parameters

(* A command that is not at work has nothing to be sound. *)
LEMMA FilingIdleIs ==
    ASSUME F!Parameters, issues \in Seq(F!Issue)
    PROVE  F!Idle \in CommandState /\ F!Idle.at = "idle" /\ Sound(F!Idle)
BY DEF F!Idle, CommandState, Sound, Sees, Files

(* A step of the command that is at work, or of one that begins. *)
LEMMA StepKeeps ==
    ASSUME F!Parameters, FilingInv, NEW c \in Command, NEW n \in CommandState,
           cmd' = [cmd EXCEPT ![c] = n],
           cmd[c].at # "idle" \/ F!LockFiling(c), n.at = "idle" => n = F!Idle, Sound(n)',
           store' \in [Finding -> F!Stored], issues' \in Seq(F!Issue), Len(issues') <= MaxIssues,
           faults' \in 0 .. MaxFaults, changes' \in 0 .. MaxChanges, FilingOnce', FilingNamed'
    PROVE  FilingInv'
<1>1. /\ cmd' \in [Command -> CommandState] /\ cmd'[c] = n
      /\ \A d \in Command : d # c => cmd'[d] = cmd[d]
  BY DEF FilingInv, FilingTyped
<1>2. \A d \in Command : d # c => cmd[d].at = "idle" /\ cmd[d] = F!Idle
  BY DEF FilingInv, FilingAlone, F!LockFiling
<1>3. FilingTyped' /\ FilingAlone'
  BY <1>1, <1>2 DEF FilingInv, FilingTyped, FilingAlone
<1>4. Sound(F!Idle)'
  BY DEF F!Idle, Sound, Sees, Files
<1>5. ASSUME NEW d \in Command PROVE Sound(cmd[d])'
  <2>1. CASE d = c
    BY <1>1, <2>1 DEF Sound, Sees, Files, Ours, Doubles
  <2>2. CASE d # c
    BY <1>1, <1>2, <1>4, <2>2 DEF Sound, Sees, Files, Ours, Doubles
  <2> QED BY <2>1, <2>2
<1> QED BY <1>3, <1>5 DEF FilingInv

(* A step that changes nothing but its command. *)
LEMMA FilingOnlyKeeps ==
    ASSUME F!Parameters, FilingInv, NEW c \in Command, NEW n \in CommandState,
           cmd' = [cmd EXCEPT ![c] = n],
           cmd[c].at # "idle" \/ F!LockFiling(c), n.at = "idle" => n = F!Idle, Sound(n),
           UNCHANGED <<store, issues, changes>>, faults' \in 0 .. MaxFaults
    PROVE  FilingInv'
<1>1. Sound(n)'
  BY DEF Sound, Sees, Files, Ours, Doubles
<1>2. FilingOnce' /\ FilingNamed'
  BY DEF FilingInv, FilingOnce, Ours, FilingNamed
<1> QED BY <1>1, <1>2, FilingStateIs, StepKeeps

(* A command ends, at any step. *)
LEMMA StopKeeps ==
    ASSUME F!Parameters, FilingInv, NEW c \in Command, cmd[c].at # "idle", F!Stop(c),
           UNCHANGED <<store, issues, changes>>, faults' \in 0 .. MaxFaults
    PROVE  FilingInv'
<1>1. F!Idle \in CommandState /\ Sound(F!Idle)
  BY FilingStateIs, FilingIdleIs
<1> QED BY <1>1, FilingOnlyKeeps DEF F!Stop

(* What is finite, and how large, is the same in the instance. *)
LEMMA FiniteIs ==
    ASSUME NEW A
    PROVE  F!IsFiniteSet(A) = IsFiniteSet(A) /\ F!Cardinality(A) = Cardinality(A)
<1>1. F!IsFiniteSet(A) = IsFiniteSet(A)
  BY DEF F!IsFiniteSet, IsFiniteSet
<1>2. F!Cardinality(A) = Cardinality(A)
  BY DEF F!Cardinality, Cardinality
<1> QED BY <1>1, <1>2

(* A command begins with findings that differ. *)
LEMMA PickKeeps ==
    ASSUME F!Parameters, FilingInv, NEW c \in Command, NEW fs \in SUBSET Finding,
           NEW fresh \in BOOLEAN,
           NEW chosen \in F!SetToSeqs(fs), F!Pick(c, chosen, fresh)
    PROVE  FilingInv'
<1>1. IsFiniteSet(fs) /\ Cardinality(fs) \in Nat
  BY FiniteIs, FS_Subset, FS_CardinalityType DEF F!Parameters
<1>2. /\ chosen \in [1 .. Cardinality(fs) -> Finding] /\ DOMAIN chosen = 1 .. Cardinality(fs)
      /\ \A j, k \in DOMAIN chosen : j # k => chosen[j] # chosen[k]
  BY FiniteIs DEF F!SetToSeqs
<1> DEFINE todo == [k \in DOMAIN chosen |-> [id |-> chosen[k], title |-> store[chosen[k]].title]]
           n == [F!Idle EXCEPT !.at = "list", !.fresh = fresh, !.chosen = todo]
<1>3. \A k \in DOMAIN chosen : todo[k] \in [id : Finding, title : Title] /\ todo[k].id = chosen[k]
  BY <1>2, FilingStateIs DEF F!Stored
<1>4. todo \in Seq([id : Finding, title : Title]) /\ DOMAIN todo = DOMAIN chosen
  <2>1. todo \in [1 .. Cardinality(fs) -> [id : Finding, title : Title]]
    BY <1>2, <1>3
  <2>2. DOMAIN todo = DOMAIN chosen
    OBVIOUS
  <2> HIDE DEF todo
  <2>3. todo \in Seq([id : Finding, title : Title])
    BY <1>1, <2>1, FunctionIsSeq
  <2> QED BY <2>2, <2>3
<1>5. n \in CommandState /\ n.at = "list" /\ n.chosen = todo /\ n.made = {} /\ n.listed = {}
      /\ n.issue = 0
  <2> HIDE DEF todo
  <2> QED BY <1>4 DEF F!Idle, CommandState
<1>6. cmd' = [cmd EXCEPT ![c] = n] /\ UNCHANGED <<store, issues, faults, changes>>
      /\ F!LockFiling(c)
  BY DEF F!Pick
<1>7. Sound(n)
  <2> HIDE DEF n
  <2> QED BY <1>2, <1>3, <1>4, <1>5 DEF Sound, Sees, Files
<1> HIDE DEF n
<1> QED BY <1>5, <1>6, <1>7, FilingStateIs, FilingOnlyKeeps

(* The list has all that revkit filed. *)
LEMMA ListOpenKeeps ==
    ASSUME F!Parameters, FilingInv, NEW c \in Command, F!ListOpen(c)
    PROVE  FilingInv'
<1> DEFINE open == {i \in DOMAIN issues : issues[i].open}
           n == [cmd[c] EXCEPT !.at = "next", !.listed = open]
<1>0. open \in SUBSET Nat /\ open \subseteq DOMAIN issues
      /\ \A i \in DOMAIN issues : issues[i].open => i \in open
  BY FilingStateIs
<1>2. cmd' = [cmd EXCEPT ![c] = n] /\ cmd[c].at = "list"
      /\ UNCHANGED <<store, issues, faults, changes>>
  BY FilingStateIs DEF F!ListOpen, CommandState, FilingInv, FilingTyped
<1> HIDE DEF open
<1>1. /\ n \in CommandState /\ n.at = "next" /\ n.chosen = cmd[c].chosen /\ n.made = cmd[c].made
      /\ n.issue = cmd[c].issue /\ n.listed = open
  BY <1>0, FilingStateIs DEF CommandState
<1> HIDE DEF n
<1>3. Sound(n)
  BY <1>0, <1>1, <1>2, FilingStateIs DEF Sound, Sees, Files, Ours
<1> QED BY <1>1, <1>2, <1>3, FilingStateIs, FilingOnlyKeeps

(* What does not link has no issue of revkit's that it would double. *)
LEMMA NextFindingKeeps ==
    ASSUME F!Parameters, FilingInv, NEW c \in Command, F!NextFinding(c)
    PROVE  FilingInv'
<1>1. cmd[c].at = "next" /\ UNCHANGED <<store, issues, faults, changes>>
  BY DEF F!NextFinding
<1>2. CASE F!Stop(c)
  BY <1>1, <1>2, FilingStateIs, StopKeeps
<1> DEFINE sf == Head(cmd[c].chosen)
<1>3. cmd[c] \in CommandState /\ Sound(cmd[c])
  BY FilingStateIs
<1>4. CASE cmd[c].chosen # <<>>
  <2>1. /\ cmd[c].chosen \in Seq([id : Finding, title : Title]) /\ sf = cmd[c].chosen[1]
        /\ 1 \in DOMAIN cmd[c].chosen
    BY <1>3, <1>4 DEF CommandState
  <2>2. ASSUME NEW i \in F!Linkable(c, sf), cmd' = [cmd EXCEPT ![c].at = "mark", ![c].issue = i]
        PROVE  FilingInv'
    <3> DEFINE n == [cmd[c] EXCEPT !.at = "mark", !.issue = i]
    <3>1. i \in DOMAIN issues /\ i \in Nat /\ i # 0
      BY <1>3, FilingStateIs DEF F!Linkable, F!Own, F!Same, Sound, Sees
    <3>2. /\ n \in CommandState /\ n.at = "mark" /\ n.chosen = cmd[c].chosen /\ n.made = cmd[c].made
          /\ n.listed = cmd[c].listed /\ n.issue = i
      BY <1>3, <3>1 DEF CommandState
    <3>3. cmd' = [cmd EXCEPT ![c] = n]
      BY <2>2, <1>3 DEF CommandState, FilingInv, FilingTyped
    <3> HIDE DEF n
    <3>4. Sound(n)
      BY <1>1, <1>3, <1>4, <3>1, <3>2 DEF Sound, Sees, Files
    <3> QED BY <1>1, <3>2, <3>3, <3>4, FilingStateIs, FilingOnlyKeeps
  <2>3. ASSUME F!Linkable(c, sf) = {}, cmd' = [cmd EXCEPT ![c].at = "create"] PROVE FilingInv'
    <3> DEFINE n == [cmd[c] EXCEPT !.at = "create"]
    <3>1. /\ n \in CommandState /\ n.at = "create" /\ n.chosen = cmd[c].chosen
             /\ n.made = cmd[c].made
          /\ n.listed = cmd[c].listed /\ n.issue = cmd[c].issue /\ n.fresh = cmd[c].fresh
      BY <1>3 DEF CommandState
    <3>2. cmd' = [cmd EXCEPT ![c] = n]
      BY <2>3, <1>3 DEF CommandState, FilingInv, FilingTyped
    <3>3. ASSUME NEW i \in DOMAIN issues, Doubles(i, cmd[c]) PROVE FALSE
      <4>1. i \in cmd[c].listed \cup cmd[c].made /\ issues[i].title = sf.title
        BY <1>1, <1>3, <2>1, <3>3 DEF Sound, Sees, Doubles
      <4>2. CASE issues[i].finding = sf.id
        <5>1. i \in cmd[c].listed
          BY <1>1, <1>3, <2>1, <4>1, <4>2 DEF Sound, Files
        <5>2. i \in F!Own(c, sf)
          BY <4>1, <4>2, <5>1 DEF F!Own
        <5> QED BY <2>3, <5>2 DEF F!Linkable
      <4>3. CASE ~ cmd[c].fresh
        <5>1. F!Same(c, sf) # {}
          BY <4>1, <4>3 DEF F!Same
        <5> QED BY <2>3, <5>1 DEF F!Linkable
      <4> QED BY <2>1, <3>3, <4>2, <4>3 DEF Doubles
    <3> HIDE DEF n
    <3>4. Sound(n)
      BY <1>1, <1>3, <1>4, <3>1, <3>3 DEF Sound, Sees, Files, Doubles
    <3> QED BY <1>1, <3>1, <3>2, <3>4, FilingStateIs, FilingOnlyKeeps
  <2> QED BY <1>2, <1>4, <2>2, <2>3 DEF F!NextFinding
<1> QED BY <1>2, <1>4 DEF F!NextFinding

(* What the tracker has is as before, and one issue of revkit's more. *)
LEMMA AppendIs ==
    ASSUME F!Parameters, FilingInv, NEW e \in F!Issue, issues' = Append(issues, e),
           Len(issues) < MaxIssues
    PROVE  /\ issues' \in Seq(F!Issue) /\ Len(issues') = Len(issues) + 1
              /\ Len(issues') <= MaxIssues
           /\ DOMAIN issues' = DOMAIN issues \cup {Len(issues) + 1}
              /\ Len(issues) + 1 \notin DOMAIN issues
           /\ issues'[Len(issues) + 1] = e /\ \A i \in DOMAIN issues : issues'[i] = issues[i]
<1>1. issues \in Seq(F!Issue) /\ Len(issues) \in Nat /\ DOMAIN issues = 1 .. Len(issues)
      /\ MaxIssues \in Nat
  BY FilingStateIs
<1> QED BY <1>1

(* The finding a command is at. *)
LEMMA HeadIs ==
    ASSUME NEW n \in CommandState, n.chosen # <<>>
    PROVE  /\ n.chosen \in Seq([id : Finding, title : Title]) /\ Head(n.chosen) = n.chosen[1]
           /\ n.chosen[1] \in [id : Finding, title : Title] /\ 1 \in DOMAIN n.chosen
<1>1. n.chosen \in Seq([id : Finding, title : Title])
  BY DEF CommandState
<1> QED BY <1>1, HeadOfSeq

(* The new issue doubles none. *)
LEMMA NewIssueIs ==
    ASSUME F!Parameters, FilingInv, NEW c \in Command, cmd[c].at = "create",
           Len(issues) < MaxIssues,
           issues' = Append(issues, F!NewIssue(c))
    PROVE  /\ issues' \in Seq(F!Issue) /\ Len(issues') <= MaxIssues /\ FilingOnce'
           /\ DOMAIN issues' = DOMAIN issues \cup {Len(issues) + 1}
              /\ Len(issues) + 1 \notin DOMAIN issues
           /\ issues'[Len(issues) + 1] = F!NewIssue(c)
              /\ \A i \in DOMAIN issues : issues'[i] = issues[i]
           /\ F!NewIssue(c).finding = cmd[c].chosen[1].id
<1>0. cmd[c] \in CommandState /\ cmd[c].chosen # <<>>
  BY FilingStateIs DEF Sound, Files
<1>1. /\ cmd[c] \in CommandState /\ Head(cmd[c].chosen) = cmd[c].chosen[1]
      /\ cmd[c].chosen[1] \in [id : Finding, title : Title]
  BY <1>0, HeadIs
<1>2. /\ F!NewIssue(c) \in F!Issue /\ F!NewIssue(c).finding = cmd[c].chosen[1].id
      /\ F!NewIssue(c).title = cmd[c].chosen[1].title /\ F!NewIssue(c).fresh = cmd[c].fresh
  BY <1>1 DEF F!NewIssue, F!Issue, CommandState
<1>3. /\ issues' \in Seq(F!Issue) /\ Len(issues') <= MaxIssues
      /\ DOMAIN issues' = DOMAIN issues \cup {Len(issues) + 1}
         /\ Len(issues) + 1 \notin DOMAIN issues
      /\ issues'[Len(issues) + 1] = F!NewIssue(c) /\ \A i \in DOMAIN issues : issues'[i] = issues[i]
  BY <1>2, AppendIs
<1>4. \A i \in DOMAIN issues : ~ Doubles(i, cmd[c])
  BY FilingStateIs DEF Sound
<1>5. FilingOnce'
  <2> SUFFICES ASSUME NEW i \in DOMAIN issues', NEW j \in DOMAIN issues', i # j, Ours(i)', Ours(j)',
                      issues'[i].title = issues'[j].title
               PROVE  issues'[i].finding # issues'[j].finding
                      /\ (issues'[i].fresh \/ issues'[j].fresh)
    BY DEF FilingOnce
  <2>1. CASE i \in DOMAIN issues /\ j \in DOMAIN issues
    BY <1>3, <2>1 DEF FilingInv, FilingOnce, Ours
  <2>2. CASE i \in DOMAIN issues /\ j = Len(issues) + 1
    <3>1. ~ Doubles(i, cmd[c]) /\ Ours(i) /\ issues[i].title = F!NewIssue(c).title
      BY <1>3, <1>4, <2>2 DEF Ours
    <3>2. issues[i].finding # F!NewIssue(c).finding /\ F!NewIssue(c).fresh
      BY <1>2, <3>1 DEF Doubles
    <3> QED BY <1>3, <2>2, <3>2
  <2>3. CASE j \in DOMAIN issues /\ i = Len(issues) + 1
    <3>1. ~ Doubles(j, cmd[c]) /\ Ours(j) /\ issues[j].title = F!NewIssue(c).title
      BY <1>3, <1>4, <2>3 DEF Ours
    <3>2. issues[j].finding # F!NewIssue(c).finding /\ F!NewIssue(c).fresh
      BY <1>2, <3>1 DEF Doubles
    <3> QED BY <1>3, <2>3, <3>2
  <2> QED BY <1>3, <2>1, <2>2, <2>3
<1> QED BY <1>2, <1>3, <1>5

(* The command knows the issue it creates, and no other of its findings has it. *)
LEMMA CreateIssueKeeps ==
    ASSUME F!Parameters, FilingInv, NEW c \in Command, F!CreateIssue(c)
    PROVE  FilingInv'
<1> DEFINE new == Len(issues) + 1
           n == [cmd[c] EXCEPT !.at = "mark", !.issue = new, !.made = @ \cup {new}]
<1>1. /\ cmd[c].at = "create" /\ Len(issues) < MaxIssues /\ issues' = Append(issues, F!NewIssue(c))
      /\ UNCHANGED <<store, faults, changes>>
  BY DEF F!CreateIssue
<1>2. cmd[c] \in CommandState /\ Sound(cmd[c]) /\ new \in Nat /\ new # 0
  BY FilingStateIs
<1>3. cmd' = [cmd EXCEPT ![c] = n]
  BY <1>2 DEF F!CreateIssue, CommandState, FilingInv, FilingTyped
<1>4. /\ issues' \in Seq(F!Issue) /\ Len(issues') <= MaxIssues /\ FilingOnce'
      /\ DOMAIN issues' = DOMAIN issues \cup {new} /\ new \notin DOMAIN issues
      /\ issues'[new] = F!NewIssue(c) /\ \A i \in DOMAIN issues : issues'[i] = issues[i]
      /\ F!NewIssue(c).finding = cmd[c].chosen[1].id
  BY <1>1, NewIssueIs
<1> HIDE DEF new
<1>5. /\ n \in CommandState /\ n.at = "mark" /\ n.chosen = cmd[c].chosen
         /\ n.made = cmd[c].made \cup {new}
      /\ n.listed = cmd[c].listed /\ n.issue = new
  BY <1>2 DEF CommandState
<1>6. FilingNamed'
  BY <1>1, <1>4 DEF FilingInv, FilingNamed
<1>7. ASSUME NEW m \in CommandState, m = n PROVE Sound(m)'
  <2> HIDE DEF n
  <2>1. Sees(m)'
    BY <1>1, <1>2, <1>4, <1>5, <1>7 DEF Sound, Sees, Ours
  <2>2. Files(m)'
    <3>1. \A j, k \in DOMAIN m.chosen : j # k => m.chosen[j].id # m.chosen[k].id
      BY <1>2, <1>5, <1>7 DEF Sound, Files
    <3>2. ASSUME NEW i \in m.made, NEW k \in DOMAIN m.chosen, k # 1
          PROVE  issues'[i].finding # m.chosen[k].id
      <4>1. CASE i = new
        <5>1. 1 \in DOMAIN m.chosen
          BY <1>1, <1>2, <1>5, <1>7 DEF Sound, Files, CommandState
        <5> QED BY <1>4, <1>5, <1>7, <3>1, <3>2, <4>1, <5>1
      <4>2. CASE i \in cmd[c].made
        BY <1>1, <1>2, <1>4, <1>5, <1>7, <3>2, <4>2 DEF Sound, Sees, Files
      <4> QED BY <1>5, <1>7, <4>1, <4>2
    <3> QED BY <1>1, <1>2, <1>5, <1>7, <3>1, <3>2 DEF Sound, Files
  <2> QED BY <1>5, <1>7, <2>1, <2>2 DEF Sound
<1> HIDE DEF n
<1>8. ASSUME NEW m \in CommandState, m = n PROVE FilingInv'
  <2>1. Sound(m)' /\ cmd' = [cmd EXCEPT ![c] = m] /\ m.at # "idle" /\ cmd[c].at # "idle"
    BY <1>1, <1>3, <1>5, <1>7, <1>8
  <2> QED BY <1>1, <1>4, <1>6, <2>1, FilingStateIs, StepKeeps
<1> QED BY <1>5, <1>8

(* The request took effect or not; the command, which cannot tell, ends. *)
LEMMA LoseResponseKeeps ==
    ASSUME F!Parameters, FilingInv, NEW c \in Command, F!LoseResponse(c)
    PROVE  FilingInv'
<1>1. /\ cmd[c].at = "create" /\ UNCHANGED <<store, changes>> /\ cmd' = [cmd EXCEPT ![c] = F!Idle]
      /\ faults' \in 0 .. MaxFaults
  BY FilingStateIs DEF F!LoseResponse, F!Stop
<1>2. CASE UNCHANGED issues
  BY <1>1, <1>2, StopKeeps DEF F!Stop
<1>3. CASE Len(issues) < MaxIssues /\ issues' = Append(issues, F!NewIssue(c))
  <2>1. /\ issues' \in Seq(F!Issue) /\ Len(issues') <= MaxIssues /\ FilingOnce'
        /\ DOMAIN issues' = DOMAIN issues \cup {Len(issues) + 1}
    BY <1>1, <1>3, NewIssueIs
  <2>2. FilingNamed'
    BY <1>1, <2>1 DEF FilingInv, FilingNamed
  <2>3. F!Idle \in CommandState /\ F!Idle.at = "idle"
    BY FilingStateIs, FilingIdleIs
  <2>4. Sound(F!Idle)'
    BY DEF F!Idle, Sound, Sees, Files
  <2> QED BY <1>1, <2>1, <2>2, <2>3, <2>4, FilingStateIs, StepKeeps
<1> QED BY <1>2, <1>3 DEF F!LoseResponse

(* The finding is named filed with an issue there is, and is filed no more. *)
LEMMA MarkFiledKeeps ==
    ASSUME F!Parameters, FilingInv, NEW c \in Command, F!MarkFiled(c)
    PROVE  FilingInv'
<1> DEFINE f == Head(cmd[c].chosen).id
           n == [cmd[c] EXCEPT !.at = "next", !.issue = 0, !.chosen = Tail(@)]
<1>1. cmd[c].at = "mark" /\ UNCHANGED <<issues, faults, changes>> /\ cmd[c] \in CommandState
      /\ Sound(cmd[c])
  BY FilingStateIs DEF F!MarkFiled
<1>2. CASE F!Stop(c) /\ UNCHANGED store
  BY <1>1, <1>2, FilingStateIs, StopKeeps
<1>3. CASE /\ store' = [store EXCEPT ![f].status = "filed", ![f].issue = cmd[c].issue]
           /\ cmd' = [cmd EXCEPT ![c].at = "next", ![c].issue = 0, ![c].chosen = Tail(@)]
  <2>0. cmd[c].chosen # <<>>
    BY <1>1 DEF Sound, Files
  <2>1. /\ cmd[c].chosen \in Seq([id : Finding, title : Title]) /\ cmd[c].chosen # <<>>
        /\ Head(cmd[c].chosen) = cmd[c].chosen[1] /\ f \in Finding
    BY <1>1, <2>0, HeadIs
  <2>2. /\ Tail(cmd[c].chosen) \in Seq([id : Finding, title : Title])
        /\ \A k \in DOMAIN Tail(cmd[c].chosen) :
              k + 1 \in DOMAIN cmd[c].chosen /\ Tail(cmd[c].chosen)[k] = cmd[c].chosen[k + 1]
              /\ k # 0
              /\ k \in Nat
    BY <2>1
  <2>3. cmd[c].issue \in DOMAIN issues /\ cmd[c].issue \in 0 .. MaxIssues
    BY <1>1, FilingStateIs DEF Sound, Sees, Files
  <2>4. /\ store' \in [Finding -> F!Stored] /\ store'[f].issue = cmd[c].issue
        /\ \A g \in Finding : g # f => store'[g] = store[g]
    <3>1. store \in [Finding -> F!Stored] /\ store[f] \in F!Stored
      BY <2>1, FilingStateIs
    <3>2. [store[f] EXCEPT !.status = "filed", !.issue = cmd[c].issue] \in F!Stored
      BY <2>3, <3>1 DEF F!Stored
    <3> QED BY <1>3, <2>1, <3>1, <3>2 DEF F!Stored
  <2>5. FilingNamed'
    BY <1>1, <2>3, <2>4 DEF FilingInv, FilingNamed
  <2>6. cmd' = [cmd EXCEPT ![c] = n]
    BY <1>1, <1>3 DEF CommandState, FilingInv, FilingTyped
  <2>7. /\ n \in CommandState /\ n.at = "next" /\ n.chosen = Tail(cmd[c].chosen)
           /\ n.made = cmd[c].made
        /\ n.listed = cmd[c].listed /\ n.issue = 0
    BY <1>1, <2>2 DEF CommandState
  <2> HIDE DEF n, f
  <2>8. Sees(n)
    BY <1>1, <2>7 DEF Sound, Sees
  <2>9. Files(n)
    <3>1. ASSUME NEW j \in DOMAIN n.chosen, NEW k \in DOMAIN n.chosen, j # k
          PROVE  n.chosen[j].id # n.chosen[k].id
      <4>1. /\ n.chosen[j] = cmd[c].chosen[j + 1] /\ n.chosen[k] = cmd[c].chosen[k + 1]
               /\ j + 1 # k + 1
            /\ j + 1 \in DOMAIN cmd[c].chosen /\ k + 1 \in DOMAIN cmd[c].chosen
        BY <2>2, <2>7, <3>1
      <4> QED BY <1>1, <4>1 DEF Sound, Files
    <3>2. ASSUME NEW i \in n.made, NEW k \in DOMAIN n.chosen
          PROVE  issues[i].finding # n.chosen[k].id
      <4>1. n.chosen[k] = cmd[c].chosen[k + 1] /\ k + 1 # 1 /\ k + 1 \in DOMAIN cmd[c].chosen
        BY <2>2, <2>7
      <4> QED BY <1>1, <2>7, <4>1 DEF Sound, Files
    <3> QED BY <2>7, <3>1, <3>2 DEF Files
  <2>10. ASSUME NEW m \in CommandState, m = n PROVE FilingInv'
    <3>1. Sound(m)'
      BY <1>1, <2>7, <2>8, <2>9, <2>10 DEF Sound, Sees, Files, Ours
    <3>2. FilingOnce'
      BY <1>1 DEF FilingInv, FilingOnce, Ours
    <3>3. cmd' = [cmd EXCEPT ![c] = m] /\ m.at # "idle" /\ cmd[c].at # "idle"
      BY <1>1, <2>6, <2>7, <2>10
    <3> QED BY <1>1, <2>4, <2>5, <3>1, <3>2, <3>3, FilingStateIs, StepKeeps
  <2> QED BY <2>7, <2>10
<1> QED BY <1>2, <1>3 DEF F!MarkFiled

(* A command that dies leaves what a command that ends leaves. *)
LEMMA FilingDieKeeps ==
    ASSUME F!Parameters, FilingInv, NEW c \in Command, F!Die(c)
    PROVE  FilingInv'
BY FilingStateIs, StopKeeps DEF F!Die

-----------------------------------------------------------------------------

(* A change of the store by others leaves the issues and the commands. *)
LEMMA FilingStoreKeeps ==
    ASSUME F!Parameters, FilingInv, UNCHANGED <<issues, cmd, faults>>, F!Change,
           store' \in [Finding -> F!Stored], FilingNamed'
    PROVE  FilingInv'
<1>1. FilingTyped' /\ FilingAlone' /\ FilingOnce'
  BY FilingStateIs DEF FilingInv, FilingTyped, FilingAlone, FilingOnce, Ours, F!Change
<1>2. ASSUME NEW c \in Command PROVE Sound(cmd[c])'
  BY FilingStateIs DEF Sound, Sees, Files, Ours, Doubles
<1> QED BY <1>1, <1>2 DEF FilingInv

(* A dismissal, a reopening and a new sighting. *)
LEMMA OthersKeep ==
    ASSUME F!Parameters, FilingInv, NEW f \in Finding, F!Dismiss(f) \/ F!Reopen(f) \/ F!Sight(f)
    PROVE  FilingInv'
<1>1. 0 \in 0 .. MaxIssues
  BY FilingStateIs
<1>2. CASE F!Dismiss(f)
  <2>1. /\ store' \in [Finding -> F!Stored] /\ store'[f].status = "dismissed"
        /\ \A g \in Finding : g # f => store'[g] = store[g]
    BY <1>2, FilingStateIs DEF F!Dismiss, F!Stored
  <2>2. FilingNamed'
    BY <1>2, <2>1 DEF FilingInv, FilingNamed, F!Dismiss
  <2> QED BY <1>2, <2>1, <2>2, FilingStoreKeeps DEF F!Dismiss
<1>3. CASE F!Reopen(f)
  <2>1. /\ store' \in [Finding -> F!Stored] /\ store'[f].status = "open"
        /\ \A g \in Finding : g # f => store'[g] = store[g]
    BY <1>1, <1>3, FilingStateIs DEF F!Reopen, F!Stored
  <2>2. FilingNamed'
    BY <1>3, <2>1 DEF FilingInv, FilingNamed, F!Reopen
  <2> QED BY <1>3, <2>1, <2>2, FilingStoreKeeps DEF F!Reopen
<1>4. CASE F!Sight(f)
  <2>1. PICK title \in Title, security \in BOOLEAN, confirmed \in BOOLEAN :
          store' = [store EXCEPT ![f].title = title, ![f].confirmed = confirmed,
                                 ![f].security = @ \/ security]
    BY <1>4 DEF F!Sight
  <2>2. /\ store' \in [Finding -> F!Stored] /\ store'[f].status = store[f].status
        /\ store'[f].issue = store[f].issue /\ \A g \in Finding : g # f => store'[g] = store[g]
    <3>1. store \in [Finding -> F!Stored] /\ store[f] \in F!Stored
      BY FilingStateIs
    <3>2. (store[f].security \/ security) \in BOOLEAN
      OBVIOUS
    <3> QED BY <2>1, <3>1, <3>2 DEF F!Stored
  <2>3. FilingNamed'
    BY <1>4, <2>2 DEF FilingInv, FilingNamed, F!Sight
  <2> QED BY <1>4, <2>2, <2>3, FilingStoreKeeps DEF F!Sight
<1> QED BY <1>2, <1>3, <1>4

(* Who opens or closes an issue opens none of revkit's. *)
LEMMA TrackerKeeps ==
    ASSUME F!Parameters, FilingInv, UNCHANGED <<store, cmd, faults>>, F!Change,
           issues' \in Seq(F!Issue),
           Len(issues') <= MaxIssues, DOMAIN issues \subseteq DOMAIN issues',
           \A i \in DOMAIN issues' : Ours(i)' => i \in DOMAIN issues /\ Ours(i),
           \A i \in DOMAIN issues : /\ issues'[i].title = issues[i].title
           /\ issues'[i].fresh = issues[i].fresh
                                    /\ issues'[i].finding = issues[i].finding
    PROVE  FilingInv'
<1>1. FilingTyped' /\ FilingAlone' /\ FilingNamed'
  BY FilingStateIs DEF FilingInv, FilingTyped, FilingAlone, FilingNamed, F!Change
<1>2. FilingOnce'
  BY DEF FilingInv, FilingOnce
<1>3. ASSUME NEW c \in Command PROVE Sound(cmd[c])'
  <2>1. Sound(cmd[c])
    BY FilingStateIs
  <2>2. Sees(cmd[c])'
    BY <2>1 DEF Sound, Sees
  <2>3. Files(cmd[c])'
    BY <2>1 DEF Sound, Sees, Files
  <2>4. cmd'[c].at = "create" => \A i \in DOMAIN issues' : ~ Doubles(i, cmd[c])'
    BY <2>1 DEF Sound, Doubles
  <2> QED BY <2>2, <2>3, <2>4 DEF Sound
<1> QED BY <1>1, <1>2, <1>3 DEF FilingInv

(* A person's issue is none of revkit's. *)
LEMMA OpenIssueKeeps ==
    ASSUME F!Parameters, FilingInv, NEW title \in Title, F!OpenIssue(title)
    PROVE  FilingInv'
<1> DEFINE e == [title |-> title, finding |-> F!None, fresh |-> FALSE, open |-> TRUE]
<1>1. e \in F!Issue /\ e.finding = F!None
  BY DEF F!Issue
<1>2. issues' = Append(issues, e) /\ Len(issues) < MaxIssues /\ F!Change
      /\ UNCHANGED <<store, cmd, faults>>
  BY DEF F!OpenIssue
<1> HIDE DEF e
<1>3. /\ issues' \in Seq(F!Issue) /\ Len(issues') <= MaxIssues
      /\ DOMAIN issues' = DOMAIN issues \cup {Len(issues) + 1}
      /\ issues'[Len(issues) + 1] = e /\ \A i \in DOMAIN issues : issues'[i] = issues[i]
  BY <1>1, <1>2, AppendIs
<1>4. \A i \in DOMAIN issues' : Ours(i)' => i \in DOMAIN issues /\ Ours(i)
  BY <1>1, <1>3 DEF Ours
<1> QED BY <1>2, <1>3, <1>4, TrackerKeeps

(* A closed issue is none that counts. *)
LEMMA CloseIssueKeeps ==
    ASSUME F!Parameters, FilingInv, NEW i \in DOMAIN issues, F!CloseIssue(i)
    PROVE  FilingInv'
<1>1. issues' = [issues EXCEPT ![i].open = FALSE] /\ F!Change /\ UNCHANGED <<store, cmd, faults>>
  BY DEF F!CloseIssue
<1>2. /\ issues \in Seq(F!Issue) /\ Len(issues) \in Nat /\ DOMAIN issues = 1 .. Len(issues)
      /\ Len(issues) <= MaxIssues /\ issues[i] \in F!Issue
  BY FilingStateIs
<1>3. /\ DOMAIN issues' = DOMAIN issues /\ issues'[i] = [issues[i] EXCEPT !.open = FALSE]
      /\ \A j \in DOMAIN issues : j # i => issues'[j] = issues[j]
  BY <1>1
<1>4. issues'[i] \in F!Issue /\ ~ issues'[i].open /\ issues'[i].title = issues[i].title
      /\ issues'[i].fresh = issues[i].fresh /\ issues'[i].finding = issues[i].finding
  BY <1>2, <1>3 DEF F!Issue
<1>5. issues' \in Seq(F!Issue) /\ Len(issues') = Len(issues)
  <2>1. issues' \in [1 .. Len(issues) -> F!Issue]
    BY <1>1, <1>2, <1>3, <1>4
  <2> QED BY <1>2, <2>1
<1>6. \A j \in DOMAIN issues' : Ours(j)' => j \in DOMAIN issues /\ Ours(j)
  BY <1>3, <1>4 DEF Ours
<1> QED BY <1>1, <1>2, <1>3, <1>4, <1>5, <1>6, TrackerKeeps

-----------------------------------------------------------------------------

(* The invariant holds at first. *)
LEMMA FilingInvInit == ASSUME F!Parameters, F!Init PROVE FilingInv
<1>1. /\ MaxIssues \in Nat /\ MaxFaults \in Nat /\ MaxChanges \in Nat /\ issues = <<>>
  BY DEF F!Parameters, F!Init
<1>2. F!Idle \in CommandState /\ Sound(F!Idle)
  BY <1>1, FilingIdleIs
<1>3. cmd \in [Command -> CommandState] /\ \A c \in Command : cmd[c] = F!Idle
  BY <1>2 DEF F!Init
<1>4. store \in [Finding -> F!Stored] /\ \A f \in Finding : store[f].status = "open"
  <2> DEFINE new == {[status |-> "open", title |-> t, issue |-> 0, security |-> FALSE,
                      confirmed |-> TRUE] : t \in Title}
  <2>1. \A r \in new : r \in F!Stored /\ r.status = "open"
    <3> SUFFICES ASSUME NEW t \in Title
                 PROVE  [status |-> "open", title |-> t, issue |-> 0, security |-> FALSE,
                         confirmed |-> TRUE] \in F!Stored
      OBVIOUS
    <3>1. 0 \in 0 .. MaxIssues
      BY <1>1
    <3> QED BY <3>1 DEF F!Stored
  <2>2. store \in [Finding -> new]
    BY DEF F!Init
  <2> HIDE DEF new
  <2> QED BY <2>1, <2>2
<1>5. FilingTyped
  BY <1>1, <1>3, <1>4 DEF F!Init, FilingTyped
<1>6. FilingAlone
  BY <1>3 DEF FilingAlone, F!Idle
<1>7. FilingOnce /\ FilingNamed
  BY <1>1, <1>4 DEF FilingOnce, FilingNamed
<1> QED BY <1>2, <1>3, <1>5, <1>6, <1>7 DEF FilingInv

(* Every step keeps it. *)
LEMMA FilingInvNext == ASSUME F!Parameters, FilingInv, [F!Next]_F!vars PROVE FilingInv'
<1>1. ASSUME NEW c \in Command,
             \/ F!ListOpen(c) \/ F!NextFinding(c) \/ F!CreateIssue(c) \/ F!LoseResponse(c)
                \/ F!MarkFiled(c) \/ F!Die(c)
      PROVE  FilingInv'
  BY <1>1, ListOpenKeeps, NextFindingKeeps, CreateIssueKeeps, LoseResponseKeeps, MarkFiledKeeps,
     FilingDieKeeps
<1>2. ASSUME NEW c \in Command, NEW fs \in SUBSET Finding, NEW fresh \in BOOLEAN,
             NEW chosen \in F!SetToSeqs(fs), F!Pick(c, chosen, fresh)
      PROVE  FilingInv'
  BY <1>2, PickKeeps
<1>3. ASSUME NEW f \in Finding, F!Dismiss(f) \/ F!Reopen(f) \/ F!Sight(f) PROVE FilingInv'
  BY <1>3, OthersKeep
<1>4. ASSUME NEW title \in Title, F!OpenIssue(title) PROVE FilingInv'
  BY <1>4, OpenIssueKeeps
<1>5. ASSUME NEW i \in DOMAIN issues, F!CloseIssue(i) PROVE FilingInv'
  BY <1>5, CloseIssueKeeps
<1>6. CASE UNCHANGED F!vars
  <2>1. FilingTyped' /\ FilingAlone' /\ FilingOnce' /\ FilingNamed'
    BY <1>6 DEF F!vars, FilingInv, FilingTyped, FilingAlone, FilingOnce, Ours, FilingNamed
  <2>2. ASSUME NEW c \in Command PROVE Sound(cmd[c])'
    BY <1>6, FilingStateIs DEF F!vars, Sound, Sees, Files, Ours, Doubles
  <2> QED BY <2>1, <2>2 DEF FilingInv
<1> QED BY <1>1, <1>2, <1>3, <1>4, <1>5, <1>6 DEF F!Next

(* The invariant always holds. *)
LEMMA FilingInvariance == ASSUME F!Parameters PROVE F!Spec => []FilingInv
<1>1. F!Init => FilingInv
  BY FilingInvInit
<1>2. FilingInv /\ [F!Next]_F!vars => FilingInv'
  BY FilingInvNext
<1> QED BY <1>1, <1>2, PTL DEF F!Spec

(* Every part of the state has its type, for any commands, findings and titles. *)
THEOREM FilingTypeCorrect == ASSUME F!Parameters PROVE F!Spec => []F!TypeOK
<1>1. FilingInv => F!TypeOK
  <2> SUFFICES ASSUME FilingInv PROVE F!TypeOK
    OBVIOUS
  <2>1. ASSUME NEW c \in Command
        PROVE  /\ cmd[c].at \in {"idle", "list", "next", "create", "mark"}
               /\ cmd[c].chosen \in Seq([id : Finding, title : Title])
               /\ cmd[c].listed \cup cmd[c].made \subseteq DOMAIN issues
               /\ cmd[c].issue \in {0} \cup DOMAIN issues
    BY FilingStateIs DEF CommandState, Sound, Sees
  <2> QED BY <2>1 DEF FilingInv, FilingTyped, F!TypeOK
<1> QED BY <1>1, FilingInvariance, PTL

(* Two open issues that revkit filed under one title are for two findings,  *)
(* and one of them was filed afresh as a person asked; and what is marked   *)
(* filed names an issue there is, whatever is lost, dies or is changed      *)
(* beside (fileFindings).                                                   *)
THEOREM FiledAtMostOnce == ASSUME F!Parameters PROVE F!Spec => []F!FiledOnce
<1>1. FilingInv => F!FiledOnce
  BY DEF FilingInv, FilingOnce, Ours, FilingNamed, F!FiledOnce
<1> QED BY <1>1, FilingInvariance, PTL

-----------------------------------------------------------------------------
(***************************************************************************)
(* ThreadSummary.  An observation reads a revision that is not older than  *)
(* the one it started from (ThreadRead), two of them are published in the  *)
(* order they started in (Ordered, Placed), and the refresh lock has one   *)
(* holder (ThreadLocked).  So the cache moves with the newest one, and     *)
(* what is shown was made of the cache's summary, unless a job that has    *)
(* put a newer one is about to regroup (Grouped).                          *)
(***************************************************************************)

CONSTANT MaxRev
VARIABLES thread, loop, facts, grouped, probe, pass, job, floor, missed

S == INSTANCE ThreadSummary


Row == [rev : S!Never .. MaxRev, is : {"needs", "done", "gone"}]
Grouping == [row : Row, summary : 0 .. MaxRev]
Obs == [at : {S!None, "start", "got", "call", "regroup", "grouped"}, of : S!Never .. MaxRev,
        from : 0 .. MaxRev, rev : 0 .. MaxRev, order : {"first", "last", "late"}]
Probe == [of : S!Never .. MaxRev, rev : 0 .. MaxRev]
ThreadEntry == [of : S!Never .. MaxRev, summary : 0 .. MaxRev, tried : S!Never .. MaxRev]
LoopState == [at : {"read", "group", "publish", "prune", "probe"}, row : Row, made : Grouping]

\* The type invariant, of the whole state.
ThreadTyped ==
    /\ thread \in [rev : 1 .. MaxRev, is : {"needs", "done", "gone"}]
    /\ loop \in LoopState /\ facts \in Row /\ grouped \in Grouping
    /\ lock \in {S!None, "loop", "pass", "job"}
    /\ probe \in Probe
    /\ pass \in Obs /\ job \in Obs
    /\ cache \in ThreadEntry
    /\ floor \in 0 .. MaxRev /\ missed \in BOOLEAN

\* An observation that is not published; what it read is not older than the
\* thread when it started, nor that than the updatedAt it is for.
ThreadOpen(o) == o.at \in {"start", "got"}
ThreadRead(o) ==
    /\ o.at \in {"start", "got", "call"} => o.of <= o.from /\ o.from <= thread.rev
    /\ o.at \in {"got", "call"} => o.from <= o.rev

\* Of two the one that is last started later, and one is late when what
\* started later is published.
Ordered(o, q) ==
    ThreadOpen(o) /\ ThreadOpen(q)
    => IF o.order = "last" THEN q.from <= o.from ELSE o.from <= q.from
Placed(o) == ThreadOpen(o) => IF o.order = "late" THEN o.from <= floor ELSE floor <= o.from

Observed ==
    /\ loop.row.rev <= thread.rev /\ facts.rev <= thread.rev /\ floor <= thread.rev
    /\ ThreadRead(pass) /\ ThreadRead(job)
    /\ Ordered(pass, job) /\ Ordered(job, pass)
    /\ Placed(pass) /\ Placed(job)

\* Who has the refresh lock.
ThreadLocked ==
    /\ lock = "loop" <=> loop.at \in {"group", "publish", "prune"}
    /\ lock = "pass" <=> pass.at = "grouped"
    /\ lock = "job" <=> job.at = "grouped"

\* A grouping in the making has the cache's summary, and so has what is shown,
\* unless a job that has put a new one is about to show it.
Grouped ==
    /\ grouped.row = facts
    /\ loop.at = "publish" => loop.made.row = loop.row
    /\ job.at = "grouped" => job.rev = cache.summary
    /\ job.at # "regroup" =>
          /\ loop.at = "publish" => loop.made.summary = cache.summary
          /\ pass.at = "grouped" => pass.rev = cache.summary
    /\ ~ missed /\ job.at \notin {"regroup", "grouped"} /\ facts.is = "needs"
       => grouped.summary = cache.summary

ThreadInv == ThreadTyped /\ Observed /\ ThreadLocked /\ Grouped /\ S!ChangesAreSeen

-----------------------------------------------------------------------------

(* What the constants are. *)
LEMMA NoneAre ==
    ASSUME S!Parameters
    PROVE  /\ S!NoObs \in Obs /\ S!NoObs.at = S!None /\ S!NoObs.of = S!Never /\ S!NoObs.from = 0
              /\ S!NoObs.rev = 0
           /\ S!NoRow \in Row /\ S!NoRow.rev = S!Never /\ S!NoRow.is = "gone"
           /\ S!NoEntry \in ThreadEntry /\ S!NoEntry.of = S!Never /\ S!NoEntry.summary = 0
              /\ S!NoEntry.tried = S!Never
           /\ S!NoProbe \in Probe /\ S!NoProbe.of = S!Never /\ S!NoProbe.rev = 0
           /\ S!NoGroup \in Grouping /\ S!NoGroup.row = S!NoRow
           /\ \A row \in Row, entry \in ThreadEntry : /\ S!Group(row, entry) \in Grouping
              /\ S!Group(row, entry).row = row
                                                /\ S!Group(row, entry).summary = entry.summary
<1>1. S!NoObs \in Obs /\ S!NoObs.at = S!None /\ S!NoObs.of = S!Never /\ S!NoObs.from = 0
      /\ S!NoObs.rev = 0
  BY DEF S!Parameters, S!NoObs, Obs, S!Never, S!None
<1>2. S!NoRow \in Row /\ S!NoRow.rev = S!Never /\ S!NoRow.is = "gone"
  BY DEF S!Parameters, S!NoRow, Row, S!Never
<1>3. S!NoEntry \in ThreadEntry /\ S!NoEntry.of = S!Never /\ S!NoEntry.summary = 0
      /\ S!NoEntry.tried = S!Never
  BY DEF S!Parameters, S!NoEntry, ThreadEntry, S!Never
<1>4. S!NoProbe \in Probe /\ S!NoProbe.of = S!Never /\ S!NoProbe.rev = 0
  BY DEF S!Parameters, S!NoProbe, Probe, S!Never
<1>5. \A row \in Row, entry \in ThreadEntry : /\ S!Group(row, entry) \in Grouping
      /\ S!Group(row, entry).row = row
                                        /\ S!Group(row, entry).summary = entry.summary
  BY DEF S!Group, Grouping, ThreadEntry
<1>6. S!NoGroup \in Grouping /\ S!NoGroup.row = S!NoRow
  BY <1>2, <1>3, <1>5 DEF S!NoGroup
<1> QED BY <1>1, <1>2, <1>3, <1>4, <1>5, <1>6

(* The facts loop goes on. *)
LEMMA LoopIs ==
    ASSUME NEW l \in LoopState, NEW at \in {"read", "group", "publish", "prune", "probe"},
           NEW row \in Row, NEW made \in Grouping
    PROVE  /\ [l EXCEPT !.at = at] \in LoopState /\ [l EXCEPT !.at = at, !.row = row] \in LoopState
           /\ [l EXCEPT !.at = at, !.made = made] \in LoopState
           /\ [l EXCEPT !.at = at, !.made = made, !.row = row] \in LoopState
           /\ l.row \in Row /\ l.made \in Grouping
BY DEF LoopState

(* An observation goes on. *)
LEMMA ObsIs ==
    ASSUME NEW o \in Obs, NEW at \in {"start", "got", "call", "regroup", "grouped"},
           NEW rev \in 0 .. MaxRev
    PROVE  /\ [o EXCEPT !.at = at] \in Obs /\ [o EXCEPT !.at = at, !.rev = rev] \in Obs
           /\ o.of \in S!Never .. MaxRev /\ o.from \in 0 .. MaxRev /\ o.rev \in 0 .. MaxRev
           /\ S!OtherStarted(o) \in Obs /\ S!OtherPublished(o) \in Obs
              /\ S!OtherForgotten(o) \in Obs
BY DEF Obs, S!OtherStarted, S!OtherPublished, S!OtherForgotten

(* The parts of the state. *)
LEMMA ThreadStateIs ==
    ASSUME S!Parameters, ThreadInv
    PROVE  /\ thread \in Row /\ thread.rev \in 1 .. MaxRev /\ facts.rev \in S!Never .. MaxRev
              /\ loop \in LoopState
           /\ facts \in Row /\ grouped \in Grouping /\ probe \in Probe /\ pass \in Obs
              /\ job \in Obs
           /\ cache \in ThreadEntry /\ MaxRev \in Nat /\ MaxRev >= 1
BY DEF ThreadInv, ThreadTyped, S!Parameters, Row, S!Never

(* One begins. *)
LEMMA ObservationIs ==
    ASSUME S!Parameters, ThreadInv, NEW of \in S!Never .. MaxRev
    PROVE  /\ S!Observation(of) \in Obs /\ S!Observation(of).at = "start"
              /\ S!Observation(of).of = of
           /\ S!Observation(of).from = thread.rev /\ S!Observation(of).order = "last"
<1>1. thread.rev \in 0 .. MaxRev /\ S!NoObs \in Obs
  BY ThreadStateIs, NoneAre
<1>2. S!Observation(of) \in Obs
  BY <1>1 DEF S!Observation, Obs
<1> QED BY <1>2 DEF S!Observation, S!NoObs

(* What is told of another observation changes only its order. *)
LEMMA OtherIs ==
    ASSUME NEW o \in Obs
    PROVE  /\ \A q \in {S!OtherStarted(o), S!OtherPublished(o), S!OtherForgotten(o)} :
                 q \in Obs /\ q.at = o.at /\ q.of = o.of /\ q.from = o.from /\ q.rev = o.rev
           /\ S!OtherStarted(o).order = IF o.order = "last" THEN "first" ELSE o.order
           /\ S!OtherPublished(o).order = IF o.order = "first" THEN "late" ELSE o.order
           /\ S!OtherForgotten(o).order = IF o.order = "late" THEN "first" ELSE o.order
BY DEF Obs, S!OtherStarted, S!OtherPublished, S!OtherForgotten


(* What a restart left in the cache may stand for the last check. *)
LEMMA KnownIs ==
    ASSUME S!Parameters, ThreadInv
    PROVE  S!Known \in Probe /\ S!Known.of <= S!Known.rev /\ S!Known.rev >= floor
BY DEF ThreadInv, ThreadTyped, S!Parameters, S!Known, Probe, ThreadEntry, S!NoProbe,
   S!ChangesAreSeen, S!Never

(* A failure keeps the summary. *)
LEMMA FailureIs ==
    ASSUME S!Parameters, ThreadInv, NEW seen, seen.of \in S!Never .. MaxRev,
           seen.rev \in 0 .. MaxRev
    PROVE  /\ S!Failure(seen) \in ThreadEntry /\ S!Failure(seen).of = seen.of
              /\ S!Failure(seen).tried = seen.rev
           /\ S!Failure(seen).summary = cache.summary
<1>1. cache \in ThreadEntry /\ seen.rev \in S!Never .. MaxRev
  BY ThreadStateIs DEF S!Never
<1> QED BY <1>1 DEF S!Failure, S!CheckedAt, ThreadEntry

(* The inventory is read. *)
LEMMA ReadFactsKeeps ==
    ASSUME S!Parameters, ThreadInv, S!ReadFacts
    PROVE  ThreadInv'
<1>1. ThreadTyped'
  <2>1. thread \in Row /\ loop \in LoopState
    BY ThreadStateIs
  <2>2. loop' \in LoopState
    BY <2>1 DEF S!ReadFacts, LoopState
  <2> QED BY <2>1, <2>2, ThreadStateIs DEF ThreadInv, ThreadTyped, S!None, S!ReadFacts
<1>2. Observed'
  BY DEF ThreadInv, ThreadTyped, LoopState, Row, Grouping, Obs, ThreadEntry, Probe,
     S!Parameters, S!None, S!Never, Observed, ThreadOpen, ThreadRead, Ordered, Placed,
     S!ReadFacts
<1>3. ThreadLocked'
  BY DEF ThreadInv, ThreadTyped, LoopState, Row, Grouping, Obs, ThreadEntry, Probe,
     S!Parameters, S!None, S!Never, ThreadLocked, S!ReadFacts
<1>4. Grouped'
  BY DEF ThreadInv, ThreadTyped, LoopState, Row, Grouping, Obs, ThreadEntry, Probe,
     S!Parameters, S!None, S!Never, ThreadLocked, Grouped, S!ReadFacts
<1>5. S!ChangesAreSeen'
  BY DEF ThreadInv, ThreadTyped, LoopState, Row, Grouping, Obs, ThreadEntry, Probe,
     S!Parameters, S!None, S!Never, Observed, ThreadOpen, ThreadRead, Ordered, Placed,
     S!ChangesAreSeen, S!ReadFacts
<1> QED BY <1>1, <1>2, <1>3, <1>4, <1>5 DEF ThreadInv

(* It is grouped with the cached summary. *)
LEMMA GroupFactsKeeps ==
    ASSUME S!Parameters, ThreadInv, S!GroupFacts
    PROVE  ThreadInv'
<1>1. ThreadTyped'
  <2>1. loop \in LoopState /\ loop.row \in Row /\ cache \in ThreadEntry
    BY ThreadStateIs DEF LoopState
  <2>2. S!Group(loop.row, cache) \in Grouping
    BY <2>1, NoneAre
  <2>3. loop' \in LoopState
    BY <2>1, <2>2 DEF S!GroupFacts, LoopState
  <2> QED BY <2>1, <2>2, <2>3, ThreadStateIs DEF ThreadInv, ThreadTyped, S!None, S!GroupFacts
<1>2. Observed'
  BY DEF ThreadInv, ThreadTyped, LoopState, Row, Grouping, Obs, ThreadEntry, Probe,
     S!Parameters, S!None, S!Never, Observed, ThreadOpen, ThreadRead, Ordered, Placed,
     S!GroupFacts, S!Group
<1>3. ThreadLocked'
  BY DEF ThreadInv, ThreadTyped, LoopState, Row, Grouping, Obs, ThreadEntry, Probe,
     S!Parameters, S!None, S!Never, ThreadLocked, S!GroupFacts, S!Group
<1>4. Grouped'
  BY DEF ThreadInv, ThreadTyped, LoopState, Row, Grouping, Obs, ThreadEntry, Probe,
     S!Parameters, S!None, S!Never, ThreadLocked, Grouped, S!GroupFacts, S!Group
<1>5. S!ChangesAreSeen'
  BY DEF ThreadInv, ThreadTyped, LoopState, Row, Grouping, Obs, ThreadEntry, Probe,
     S!Parameters, S!None, S!Never, Observed, ThreadOpen, ThreadRead, Ordered, Placed,
     S!ChangesAreSeen, S!GroupFacts, S!Group
<1> QED BY <1>1, <1>2, <1>3, <1>4, <1>5 DEF ThreadInv

(* Both are published. *)
LEMMA PublishFactsKeeps ==
    ASSUME S!Parameters, ThreadInv, S!PublishFacts
    PROVE  ThreadInv'
<1>1. ThreadTyped'
  <2>1. loop \in LoopState /\ loop.row \in Row /\ loop.made \in Grouping
    BY ThreadStateIs DEF LoopState
  <2>2. loop' \in LoopState
    BY <2>1, NoneAre DEF S!PublishFacts, LoopState
  <2> QED BY <2>1, <2>2, ThreadStateIs DEF ThreadInv, ThreadTyped, S!None, S!PublishFacts
<1>2. Observed'
  BY DEF ThreadInv, ThreadTyped, LoopState, Row, Grouping, Obs, ThreadEntry, Probe,
     S!Parameters, S!None, S!Never, Observed, ThreadOpen, ThreadRead, Ordered, Placed,
     S!PublishFacts, S!NoRow, S!NoGroup, S!Group, S!NoEntry
<1>3. ThreadLocked'
  BY DEF ThreadInv, ThreadTyped, LoopState, Row, Grouping, Obs, ThreadEntry, Probe,
     S!Parameters, S!None, S!Never, ThreadLocked, S!PublishFacts, S!NoRow, S!NoGroup, S!Group,
     S!NoEntry
<1>4. Grouped'
  BY DEF ThreadInv, ThreadTyped, LoopState, Row, Grouping, Obs, ThreadEntry, Probe,
     S!Parameters, S!None, S!Never, ThreadLocked, Grouped, S!PublishFacts, S!NoRow, S!NoGroup,
     S!Group, S!NoEntry
<1>5. S!ChangesAreSeen'
  BY DEF ThreadInv, ThreadTyped, LoopState, Row, Grouping, Obs, ThreadEntry, Probe,
     S!Parameters, S!None, S!Never, Observed, ThreadOpen, ThreadRead, Ordered, Placed,
     S!ChangesAreSeen, S!PublishFacts, S!NoRow, S!NoGroup, S!Group, S!NoEntry
<1> QED BY <1>1, <1>2, <1>3, <1>4, <1>5 DEF ThreadInv

(* A thread that left the inventory is forgotten. *)
LEMMA PruneKeeps ==
    ASSUME S!Parameters, ThreadInv, S!Prune
    PROVE  ThreadInv'
<1>1. ThreadTyped'
  BY DEF ThreadInv, ThreadTyped, LoopState, Row, Grouping, Obs, ThreadEntry, Probe,
     S!Parameters, S!None, S!Never, S!Prune, S!NoProbe, S!OtherForgotten, S!NoEntry
<1>2. Observed'
  BY DEF ThreadInv, ThreadTyped, LoopState, Row, Grouping, Obs, ThreadEntry, Probe,
     S!Parameters, S!None, S!Never, Observed, ThreadOpen, ThreadRead, Ordered, Placed, S!Prune,
     S!NoProbe, S!OtherForgotten, S!NoEntry
<1>3. ThreadLocked'
  BY DEF ThreadInv, ThreadTyped, LoopState, Row, Grouping, Obs, ThreadEntry, Probe,
     S!Parameters, S!None, S!Never, ThreadLocked, S!Prune, S!NoProbe, S!OtherForgotten,
     S!NoEntry
<1>4. Grouped'
  BY DEF ThreadInv, ThreadTyped, LoopState, Row, Grouping, Obs, ThreadEntry, Probe,
     S!Parameters, S!None, S!Never, ThreadLocked, Grouped, S!Prune, S!NoProbe, S!OtherForgotten,
     S!NoEntry
<1>5. S!ChangesAreSeen'
  BY DEF ThreadInv, ThreadTyped, LoopState, Row, Grouping, Obs, ThreadEntry, Probe,
     S!Parameters, S!None, S!Never, Observed, ThreadOpen, ThreadRead, Ordered, Placed,
     S!ChangesAreSeen, S!Prune, S!NoProbe, S!OtherForgotten, S!NoEntry
<1> QED BY <1>1, <1>2, <1>3, <1>4, <1>5 DEF ThreadInv

(* The last good facts stay. *)
LEMMA FailFactsKeeps ==
    ASSUME S!Parameters, ThreadInv, S!FailFacts
    PROVE  ThreadInv'
<1>1. ThreadTyped'
  <2>1. loop \in LoopState
    BY ThreadStateIs
  <2>2. loop' \in LoopState
    BY <2>1, NoneAre DEF S!FailFacts, LoopState
  <2> QED BY <2>1, <2>2, ThreadStateIs DEF ThreadInv, ThreadTyped, S!None, S!FailFacts
<1>2. Observed'
  BY DEF ThreadInv, ThreadTyped, LoopState, Row, Grouping, Obs, ThreadEntry, Probe,
     S!Parameters, S!None, S!Never, Observed, ThreadOpen, ThreadRead, Ordered, Placed,
     S!FailFacts, S!NoRow, S!NoGroup, S!Group, S!NoEntry
<1>3. ThreadLocked'
  BY DEF ThreadInv, ThreadTyped, LoopState, Row, Grouping, Obs, ThreadEntry, Probe,
     S!Parameters, S!None, S!Never, ThreadLocked, S!FailFacts, S!NoRow, S!NoGroup, S!Group,
     S!NoEntry
<1>4. Grouped'
  BY DEF ThreadInv, ThreadTyped, LoopState, Row, Grouping, Obs, ThreadEntry, Probe,
     S!Parameters, S!None, S!Never, ThreadLocked, Grouped, S!FailFacts, S!NoRow, S!NoGroup,
     S!Group, S!NoEntry
<1>5. S!ChangesAreSeen'
  BY DEF ThreadInv, ThreadTyped, LoopState, Row, Grouping, Obs, ThreadEntry, Probe,
     S!Parameters, S!None, S!Never, Observed, ThreadOpen, ThreadRead, Ordered, Placed,
     S!ChangesAreSeen, S!FailFacts, S!NoRow, S!NoGroup, S!Group, S!NoEntry
<1> QED BY <1>1, <1>2, <1>3, <1>4, <1>5 DEF ThreadInv

(* The pass shows what it saw. *)
LEMMA RegroupPassKeeps ==
    ASSUME S!Parameters, ThreadInv, S!RegroupPass
    PROVE  ThreadInv'
<1>1. ThreadTyped'
  <2>1. pass \in Obs /\ facts \in Row /\ cache.summary \in 0 .. MaxRev
    BY ThreadStateIs DEF ThreadEntry
  <2>2. pass' \in Obs
    BY <2>1, NoneAre DEF S!RegroupPass, S!Regrouped, Obs
  <2>3. grouped' \in Grouping
    BY <2>1, ThreadStateIs DEF S!RegroupPass, S!Regroup, Grouping, Obs
  <2> QED
    BY <2>1, <2>2, <2>3, ThreadStateIs DEF ThreadInv, ThreadTyped, S!None, S!RegroupPass,
       S!Regroup, S!Regrouped, S!MayRegroup, S!NoObs, S!NoRow
<1>2. Observed'
  BY DEF ThreadInv, ThreadTyped, LoopState, Row, Grouping, Obs, ThreadEntry, Probe,
     S!Parameters, S!None, S!Never, Observed, ThreadOpen, ThreadRead, Ordered, Placed,
     S!RegroupPass, S!Regroup, S!Regrouped, S!MayRegroup, S!NoObs, S!NoRow
<1>3. ThreadLocked'
  BY DEF ThreadInv, ThreadTyped, LoopState, Row, Grouping, Obs, ThreadEntry, Probe,
     S!Parameters, S!None, S!Never, ThreadLocked, S!RegroupPass, S!Regroup, S!Regrouped,
     S!MayRegroup, S!NoObs, S!NoRow
<1>4. Grouped'
  BY DEF ThreadInv, ThreadTyped, LoopState, Row, Grouping, Obs, ThreadEntry, Probe,
     S!Parameters, S!None, S!Never, ThreadLocked, Grouped, S!RegroupPass, S!Regroup,
     S!Regrouped, S!MayRegroup, S!NoObs, S!NoRow
<1>5. S!ChangesAreSeen'
  BY DEF ThreadInv, ThreadTyped, LoopState, Row, Grouping, Obs, ThreadEntry, Probe,
     S!Parameters, S!None, S!Never, Observed, ThreadOpen, ThreadRead, Ordered, Placed,
     S!ChangesAreSeen, S!RegroupPass, S!Regroup, S!Regrouped, S!MayRegroup, S!NoObs, S!NoRow
<1> QED BY <1>1, <1>2, <1>3, <1>4, <1>5 DEF ThreadInv

(* A job starts. *)
LEMMA StartJobKeeps ==
    ASSUME S!Parameters, ThreadInv, S!StartJob
    PROVE  ThreadInv'
<1>1. ThreadTyped'
  <2>1. facts.rev \in S!Never .. MaxRev /\ pass \in Obs
    BY ThreadStateIs
  <2>2. job' \in Obs
    BY <2>1, ObservationIs DEF S!StartJob
  <2>3. pass' \in Obs
    BY <2>1, OtherIs DEF S!StartJob
  <2> QED BY <2>1, <2>2, <2>3, ThreadStateIs DEF ThreadInv, ThreadTyped, S!None, S!StartJob
<1>2. Observed'
  BY DEF ThreadInv, ThreadTyped, LoopState, Row, Grouping, Obs, ThreadEntry, Probe,
     S!Parameters, S!None, S!Never, Observed, ThreadOpen, ThreadRead, Ordered, Placed,
     S!StartJob, S!Observation, S!NoObs, S!OtherStarted
<1>3. ThreadLocked'
  BY DEF ThreadInv, ThreadTyped, LoopState, Row, Grouping, Obs, ThreadEntry, Probe,
     S!Parameters, S!None, S!Never, ThreadLocked, S!StartJob, S!Observation, S!NoObs,
     S!OtherStarted
<1>4. Grouped'
  BY DEF ThreadInv, ThreadTyped, LoopState, Row, Grouping, Obs, ThreadEntry, Probe,
     S!Parameters, S!None, S!Never, ThreadLocked, Grouped, S!StartJob, S!Observation, S!NoObs,
     S!OtherStarted
<1>5. S!ChangesAreSeen'
  BY DEF ThreadInv, ThreadTyped, LoopState, Row, Grouping, Obs, ThreadEntry, Probe,
     S!Parameters, S!None, S!Never, Observed, ThreadOpen, ThreadRead, Ordered, Placed,
     S!ChangesAreSeen, S!StartJob, S!Observation, S!NoObs, S!OtherStarted
<1> QED BY <1>1, <1>2, <1>3, <1>4, <1>5 DEF ThreadInv

(* The pass publishes its observation. *)
LEMMA PublishProbeKeeps ==
    ASSUME S!Parameters, ThreadInv, S!PublishProbe
    PROVE  ThreadInv'
<1>1. ThreadTyped'
  BY DEF ThreadInv, ThreadTyped, LoopState, Row, Grouping, Obs, ThreadEntry, Probe,
     S!Parameters, S!None, S!Never, S!PublishProbe, S!PublishObs, S!Record, S!OtherPublished,
     S!NoObs, S!NoProbe
<1>2. Observed'
  BY DEF ThreadInv, ThreadTyped, LoopState, Row, Grouping, Obs, ThreadEntry, Probe,
     S!Parameters, S!None, S!Never, Observed, ThreadOpen, ThreadRead, Ordered, Placed,
     S!PublishProbe, S!PublishObs, S!Record, S!OtherPublished, S!NoObs, S!NoProbe
<1>3. ThreadLocked'
  BY DEF ThreadInv, ThreadTyped, LoopState, Row, Grouping, Obs, ThreadEntry, Probe,
     S!Parameters, S!None, S!Never, ThreadLocked, S!PublishProbe, S!PublishObs, S!Record,
     S!OtherPublished, S!NoObs, S!NoProbe
<1>4. Grouped'
  BY DEF ThreadInv, ThreadTyped, LoopState, Row, Grouping, Obs, ThreadEntry, Probe,
     S!Parameters, S!None, S!Never, ThreadLocked, Grouped, S!PublishProbe, S!PublishObs,
     S!Record, S!OtherPublished, S!NoObs, S!NoProbe
<1>5. S!ChangesAreSeen'
  BY DEF ThreadInv, ThreadTyped, LoopState, Row, Grouping, Obs, ThreadEntry, Probe,
     S!Parameters, S!None, S!Never, Observed, ThreadOpen, ThreadRead, Ordered, Placed,
     S!ChangesAreSeen, S!PublishProbe, S!PublishObs, S!Record, S!OtherPublished, S!NoObs,
     S!NoProbe
<1> QED BY <1>1, <1>2, <1>3, <1>4, <1>5 DEF ThreadInv

(* The job publishes its observation. *)
LEMMA PublishMessagesKeeps ==
    ASSUME S!Parameters, ThreadInv, S!PublishMessages
    PROVE  ThreadInv'
<1>1. ThreadTyped'
  BY DEF ThreadInv, ThreadTyped, LoopState, Row, Grouping, Obs, ThreadEntry, Probe,
     S!Parameters, S!None, S!Never, S!PublishMessages, S!PublishObs, S!Record, S!OtherPublished,
     S!NoObs
<1>2. Observed'
  BY DEF ThreadInv, ThreadTyped, LoopState, Row, Grouping, Obs, ThreadEntry, Probe,
     S!Parameters, S!None, S!Never, Observed, ThreadOpen, ThreadRead, Ordered, Placed,
     S!PublishMessages, S!PublishObs, S!Record, S!OtherPublished, S!NoObs
<1>3. ThreadLocked'
  BY DEF ThreadInv, ThreadTyped, LoopState, Row, Grouping, Obs, ThreadEntry, Probe,
     S!Parameters, S!None, S!Never, ThreadLocked, S!PublishMessages, S!PublishObs, S!Record,
     S!OtherPublished, S!NoObs
<1>4. Grouped'
  BY DEF ThreadInv, ThreadTyped, LoopState, Row, Grouping, Obs, ThreadEntry, Probe,
     S!Parameters, S!None, S!Never, ThreadLocked, Grouped, S!PublishMessages, S!PublishObs,
     S!Record, S!OtherPublished, S!NoObs
<1>5. S!ChangesAreSeen'
  BY DEF ThreadInv, ThreadTyped, LoopState, Row, Grouping, Obs, ThreadEntry, Probe,
     S!Parameters, S!None, S!Never, Observed, ThreadOpen, ThreadRead, Ordered, Placed,
     S!ChangesAreSeen, S!PublishMessages, S!PublishObs, S!Record, S!OtherPublished, S!NoObs
<1> QED BY <1>1, <1>2, <1>3, <1>4, <1>5 DEF ThreadInv

(* The job shows its summary. *)
LEMMA RegroupJobKeeps ==
    ASSUME S!Parameters, ThreadInv, S!RegroupJob
    PROVE  ThreadInv'
<1>1. ThreadTyped'
  <2>1. job \in Obs /\ facts \in Row /\ cache.summary \in 0 .. MaxRev
    BY ThreadStateIs DEF ThreadEntry
  <2>2. job' \in Obs
    BY <2>1, NoneAre DEF S!RegroupJob, S!Regrouped, Obs
  <2>3. grouped' \in Grouping
    BY <2>1, ThreadStateIs DEF S!RegroupJob, S!Regroup, Grouping, Obs
  <2> QED
    BY <2>1, <2>2, <2>3, ThreadStateIs DEF ThreadInv, ThreadTyped, S!None, S!RegroupJob,
       S!Regroup, S!Regrouped, S!MayRegroup, S!NoObs, S!NoRow
<1>2. Observed'
  BY DEF ThreadInv, ThreadTyped, LoopState, Row, Grouping, Obs, ThreadEntry, Probe,
     S!Parameters, S!None, S!Never, Observed, ThreadOpen, ThreadRead, Ordered, Placed,
     S!RegroupJob, S!Regroup, S!Regrouped, S!MayRegroup, S!NoObs, S!NoRow
<1>3. ThreadLocked'
  BY DEF ThreadInv, ThreadTyped, LoopState, Row, Grouping, Obs, ThreadEntry, Probe,
     S!Parameters, S!None, S!Never, ThreadLocked, S!RegroupJob, S!Regroup, S!Regrouped,
     S!MayRegroup, S!NoObs, S!NoRow
<1>4. Grouped'
  BY DEF ThreadInv, ThreadTyped, LoopState, Row, Grouping, Obs, ThreadEntry, Probe,
     S!Parameters, S!None, S!Never, ThreadLocked, Grouped, S!RegroupJob, S!Regroup, S!Regrouped,
     S!MayRegroup, S!NoObs, S!NoRow
<1>5. S!ChangesAreSeen'
  BY DEF ThreadInv, ThreadTyped, LoopState, Row, Grouping, Obs, ThreadEntry, Probe,
     S!Parameters, S!None, S!Never, Observed, ThreadOpen, ThreadRead, Ordered, Placed,
     S!ChangesAreSeen, S!RegroupJob, S!Regroup, S!Regrouped, S!MayRegroup, S!NoObs, S!NoRow
<1> QED BY <1>1, <1>2, <1>3, <1>4, <1>5 DEF ThreadInv

(* The thread changes. *)
LEMMA ChangeKeeps ==
    ASSUME S!Parameters, ThreadInv, S!Change
    PROVE  ThreadInv'
<1>1. ThreadTyped'
  BY DEF ThreadInv, ThreadTyped, LoopState, Row, Grouping, Obs, ThreadEntry, Probe,
     S!Parameters, S!None, S!Never, S!Change
<1>2. Observed'
  BY DEF ThreadInv, ThreadTyped, LoopState, Row, Grouping, Obs, ThreadEntry, Probe,
     S!Parameters, S!None, S!Never, Observed, ThreadOpen, ThreadRead, Ordered, Placed, S!Change
<1>3. ThreadLocked'
  BY DEF ThreadInv, ThreadTyped, LoopState, Row, Grouping, Obs, ThreadEntry, Probe,
     S!Parameters, S!None, S!Never, ThreadLocked, S!Change
<1>4. Grouped'
  BY DEF ThreadInv, ThreadTyped, LoopState, Row, Grouping, Obs, ThreadEntry, Probe,
     S!Parameters, S!None, S!Never, ThreadLocked, Grouped, S!Change
<1>5. S!ChangesAreSeen'
  BY DEF ThreadInv, ThreadTyped, LoopState, Row, Grouping, Obs, ThreadEntry, Probe,
     S!Parameters, S!None, S!Never, Observed, ThreadOpen, ThreadRead, Ordered, Placed,
     S!ChangesAreSeen, S!Change
<1> QED BY <1>1, <1>2, <1>3, <1>4, <1>5 DEF ThreadInv

(* The job reads, or records a failure as of the last check. *)
LEMMA ReadMessagesKeeps ==
    ASSUME S!Parameters, ThreadInv, S!ReadMessages
    PROVE  ThreadInv'
<1>1. ThreadTyped'
  <2>1. job \in Obs /\ probe \in Probe /\ cache \in ThreadEntry /\ thread.rev \in 0 .. MaxRev
    BY ThreadStateIs DEF Row
  <2>2. job' \in Obs
    BY <2>1, NoneAre DEF S!ReadMessages, S!Put, Obs
  <2>3. cache' \in ThreadEntry
    BY <2>1, FailureIs DEF S!ReadMessages, S!Put, Probe
  <2> QED BY <2>1, <2>2, <2>3, ThreadStateIs DEF ThreadInv, ThreadTyped, S!None, S!ReadMessages
<1>0. /\ UNCHANGED <<thread, loop, facts, grouped, lock, pass, floor, missed>>
      /\ job.at = "start" /\ job'.at \in {"got", "regroup"}
      /\ job'.at = "got" => /\ job'.of = job.of /\ job'.from = job.from /\ UNCHANGED cache
                            /\ job'.order = job.order /\ job'.rev = thread.rev
  <2>1. /\ UNCHANGED <<thread, loop, facts, grouped, lock, pass, floor, missed>> /\ job.at = "start"
        /\ \/ job' = [job EXCEPT !.at = "got", !.rev = thread.rev] /\ UNCHANGED cache
           \/ job' = [S!NoObs EXCEPT !.at = "regroup"]
    BY DEF S!ReadMessages, S!Put
  <2>2. job \in Obs /\ S!NoObs \in Obs
    BY ThreadStateIs, NoneAre
  <2> QED BY <2>1, <2>2 DEF Obs
<1>2. Observed'
  BY <1>0 DEF ThreadInv, Observed, ThreadOpen, ThreadRead, Ordered, Placed
<1>3. ThreadLocked'
  BY <1>0 DEF ThreadInv, ThreadLocked
<1>4. Grouped'
  BY <1>0 DEF ThreadInv, Grouped
<1>5. S!ChangesAreSeen'
  BY DEF ThreadInv, ThreadTyped, LoopState, Row, Grouping, Obs, ThreadEntry, Probe,
     S!Parameters, S!None, S!Never, Observed, ThreadOpen, ThreadRead, Ordered, Placed,
     S!ChangesAreSeen, S!ReadMessages, S!Put, S!Failure, S!CheckedAt, S!NoObs
<1> QED BY <1>1, <1>2, <1>3, <1>4, <1>5 DEF ThreadInv

(* The job ends with an answer or a failure. *)
LEMMA SummarizeKeeps ==
    ASSUME S!Parameters, ThreadInv, S!Summarize
    PROVE  ThreadInv'
<1>1. ThreadTyped'
  <2>1. job \in Obs /\ cache \in ThreadEntry
    BY ThreadStateIs
  <2>2. job' \in Obs
    BY <2>1, NoneAre DEF S!Summarize, S!Put, Obs
  <2>3. cache' \in ThreadEntry
    <3>1. job.of \in S!Never .. MaxRev /\ job.rev \in 0 .. MaxRev /\ job.rev \in S!Never .. MaxRev
      BY <2>1, ThreadStateIs DEF Obs, S!Never
    <3>2. [of |-> job.of, summary |-> job.rev, tried |-> job.rev] \in ThreadEntry
      BY <3>1 DEF ThreadEntry
    <3>3. S!Failure(job) \in ThreadEntry
      BY <3>1, FailureIs
    <3> QED BY <2>1, <3>2, <3>3 DEF S!Summarize, S!Put
  <2> QED BY <2>1, <2>2, <2>3, ThreadStateIs DEF ThreadInv, ThreadTyped, S!None, S!Summarize
<1>2. Observed'
  BY DEF ThreadInv, ThreadTyped, LoopState, Row, Grouping, Obs, ThreadEntry, Probe,
     S!Parameters, S!None, S!Never, Observed, ThreadOpen, ThreadRead, Ordered, Placed,
     S!Summarize, S!Put, S!Failure, S!CheckedAt, S!NoObs
<1>3. ThreadLocked'
  BY DEF ThreadInv, ThreadTyped, LoopState, Row, Grouping, Obs, ThreadEntry, Probe,
     S!Parameters, S!None, S!Never, ThreadLocked, S!Summarize, S!Put, S!Failure, S!CheckedAt,
     S!NoObs
<1>4. Grouped'
  BY DEF ThreadInv, ThreadTyped, LoopState, Row, Grouping, Obs, ThreadEntry, Probe,
     S!Parameters, S!None, S!Never, ThreadLocked, Grouped, S!Summarize, S!Put, S!Failure,
     S!CheckedAt, S!NoObs
<1>5. S!ChangesAreSeen'
  <2>1. UNCHANGED <<probe, floor>> /\ job.at = "call" /\ job \in Obs
    BY ThreadStateIs DEF S!Summarize
  <2>2. job.of <= job.rev
    BY <2>1, ThreadStateIs DEF ThreadInv, Observed, ThreadRead, Obs, S!Never
  <2>3. cache' \in {cache, [of |-> job.of, summary |-> job.rev, tried |-> job.rev], S!Failure(job)}
    BY DEF S!Summarize, S!Put
  <2>4. S!Failure(job).of = job.of /\ S!Failure(job).tried = job.rev
    BY <2>1, FailureIs DEF Obs
  <2> QED BY <2>1, <2>2, <2>3, <2>4 DEF ThreadInv, S!ChangesAreSeen
<1> QED BY <1>1, <1>2, <1>3, <1>4, <1>5 DEF ThreadInv

(* The process starts anew with the cache. *)
LEMMA RestartKeeps ==
    ASSUME S!Parameters, ThreadInv, S!Restart
    PROVE  ThreadInv'
<1>1. ThreadTyped'
  <2>1. loop' \in LoopState
    BY NoneAre DEF S!Restart, S!NewDeck, LoopState
  <2>2. facts' \in Row /\ grouped' \in Grouping /\ probe' \in Probe /\ pass' \in Obs /\ job' \in Obs
    BY NoneAre DEF S!Restart, S!NewDeck
  <2>3. floor' \in 0 .. MaxRev
    BY ThreadStateIs DEF S!Restart, S!NewDeck
  <2> QED
    BY <2>1, <2>2, <2>3, ThreadStateIs DEF ThreadInv, ThreadTyped, S!None, S!Restart, S!NewDeck,
       S!NoRow, S!NoGroup, S!Group, S!NoEntry, S!NoProbe, S!NoObs
<1>2. Observed'
  BY DEF ThreadInv, ThreadTyped, LoopState, Row, Grouping, Obs, ThreadEntry, Probe,
     S!Parameters, S!None, S!Never, Observed, ThreadOpen, ThreadRead, Ordered, Placed,
     S!Restart, S!NewDeck, S!NoRow, S!NoGroup, S!Group, S!NoEntry, S!NoProbe, S!NoObs
<1>3. ThreadLocked'
  BY DEF ThreadInv, ThreadTyped, LoopState, Row, Grouping, Obs, ThreadEntry, Probe,
     S!Parameters, S!None, S!Never, ThreadLocked, S!Restart, S!NewDeck, S!NoRow, S!NoGroup,
     S!Group, S!NoEntry, S!NoProbe, S!NoObs
<1>4. Grouped'
  BY DEF ThreadInv, ThreadTyped, LoopState, Row, Grouping, Obs, ThreadEntry, Probe,
     S!Parameters, S!None, S!Never, ThreadLocked, Grouped, S!Restart, S!NewDeck, S!NoRow,
     S!NoGroup, S!Group, S!NoEntry, S!NoProbe, S!NoObs
<1>5. S!ChangesAreSeen'
  BY DEF ThreadInv, ThreadTyped, LoopState, Row, Grouping, Obs, ThreadEntry, Probe,
     S!Parameters, S!None, S!Never, Observed, ThreadOpen, ThreadRead, Ordered, Placed,
     S!ChangesAreSeen, S!Restart, S!NewDeck, S!NoRow, S!NoGroup, S!Group, S!NoEntry, S!NoProbe,
     S!NoObs
<1> QED BY <1>1, <1>2, <1>3, <1>4, <1>5 DEF ThreadInv

(* The pass reads. *)
LEMMA ReadRevisionKeeps ==
    ASSUME S!Parameters, ThreadInv, S!ReadRevision
    PROVE  ThreadInv'
<1>1. pass \in Obs /\ thread.rev \in 0 .. MaxRev
  BY ThreadStateIs
<1>2. /\ pass' \in Obs /\ pass'.at \in {S!None, "got"}
      /\ pass'.at = "got" => /\ pass'.of = pass.of /\ pass'.from = pass.from
         /\ pass'.order = pass.order
                             /\ pass'.rev = thread.rev
  <2>1. CASE pass' = [pass EXCEPT !.at = "got", !.rev = thread.rev]
    BY <1>1, <2>1 DEF Obs
  <2>2. CASE pass' = S!NoObs
    BY <2>2, NoneAre DEF S!None
  <2> QED BY <2>1, <2>2 DEF S!ReadRevision
<1>3. pass.at = "start"
      /\ UNCHANGED <<thread, loop, facts, grouped, lock, probe, job, cache, floor, missed>>
  BY DEF S!ReadRevision
<1>4. ThreadTyped' /\ ThreadLocked' /\ Grouped' /\ S!ChangesAreSeen'
  BY <1>2, <1>3 DEF ThreadInv, ThreadTyped, ThreadLocked, Grouped, S!ChangesAreSeen, S!None
<1>5. Observed'
  BY <1>1, <1>2, <1>3 DEF ThreadInv, Observed, ThreadOpen, ThreadRead, Ordered, Placed, S!None
<1> QED BY <1>4, <1>5 DEF ThreadInv

(* A pass starts, or takes what a restart left in the cache. *)
LEMMA StartProbeKeeps ==
    ASSUME S!Parameters, ThreadInv, S!StartProbe
    PROVE  ThreadInv'
<1>1. /\ loop' = [loop EXCEPT !.at = "read"] /\ loop.at = "probe"
      /\ UNCHANGED <<thread, facts, grouped, lock, cache, floor, missed>>
  BY DEF S!StartProbe
<1>2. loop' \in LoopState /\ loop'.at = "read" /\ loop'.row = loop.row
  BY <1>1, ThreadStateIs DEF LoopState
<1>3. ASSUME NEW o \in Obs, NEW q \in Obs, NEW seen \in Probe, pass' = o, job' = q, probe' = seen,
             seen.of <= seen.rev, seen.rev >= floor, ThreadRead(o), ThreadRead(q), Ordered(o, q),
             Ordered(q, o),
             Placed(o), Placed(q), q.at = job.at, q.rev = job.rev, o.at # "grouped" \/ o = pass,
             o.at = "grouped" <=> pass.at = "grouped"
      PROVE  ThreadInv'
  <2>1. ThreadTyped' /\ ThreadLocked'
    BY <1>1, <1>2, <1>3 DEF ThreadInv, ThreadTyped, ThreadLocked, S!None
  <2>2. Grouped' /\ S!ChangesAreSeen'
    BY <1>1, <1>2, <1>3 DEF ThreadInv, Grouped, S!ChangesAreSeen
  <2>3. Observed'
    BY <1>1, <1>2, <1>3 DEF ThreadInv, Observed, ThreadOpen, ThreadRead, Ordered, Placed
  <2> QED BY <2>1, <2>2, <2>3 DEF ThreadInv
<1>4. pass \in Obs /\ job \in Obs /\ probe \in Probe /\ facts.rev \in S!Never .. MaxRev
  BY ThreadStateIs
<1>5. CASE UNCHANGED <<probe, pass, job>>
  BY <1>3, <1>4, <1>5 DEF ThreadInv, Observed, S!ChangesAreSeen
<1>6. S!Known \in Probe /\ S!Known.of <= S!Known.rev /\ S!Known.rev >= floor
  BY KnownIs
<1>7. CASE pass.at = S!None /\ probe' = S!Known /\ pass' = S!Observation(facts.rev)
      /\ job' = S!OtherStarted(job)
  <2>1. /\ S!Observation(facts.rev) \in Obs /\ S!Observation(facts.rev).at = "start"
        /\ S!Observation(facts.rev).of = facts.rev /\ S!Observation(facts.rev).from = thread.rev
        /\ S!Observation(facts.rev).order = "last"
    BY <1>4, ObservationIs
  <2>2. /\ S!OtherStarted(job) \in Obs /\ S!OtherStarted(job).at = job.at
           /\ S!OtherStarted(job).of = job.of
        /\ S!OtherStarted(job).from = job.from /\ S!OtherStarted(job).rev = job.rev
        /\ S!OtherStarted(job).order = IF job.order = "last" THEN "first" ELSE job.order
    BY <1>4, OtherIs
  <2>3. ThreadRead(S!Observation(facts.rev)) /\ Placed(S!Observation(facts.rev))
    BY <1>4, <2>1, ThreadStateIs DEF ThreadInv, Observed, ThreadRead, Placed, S!Never
  <2>4. ThreadRead(S!OtherStarted(job)) /\ Placed(S!OtherStarted(job))
    BY <2>2 DEF ThreadInv, Observed, ThreadRead, Placed, ThreadOpen
  <2>5. job.at \in {"start", "got"} => job.from <= thread.rev
    BY DEF ThreadInv, Observed, ThreadRead
  <2>6. /\ Ordered(S!Observation(facts.rev), S!OtherStarted(job))
        /\ Ordered(S!OtherStarted(job), S!Observation(facts.rev))
    BY <2>1, <2>2, <2>5 DEF Ordered, ThreadOpen
  <2> QED BY <1>3, <1>6, <1>7, <2>1, <2>2, <2>3, <2>4, <2>6 DEF S!None
<1>8. CASE /\ pass.at = S!None /\ probe' = S!Known /\ UNCHANGED job
           /\ pass' = IF S!Known = probe THEN S!NoObs ELSE [S!NoObs EXCEPT !.at = "regroup"]
  <2>1. pass' \in Obs /\ pass'.at \in {S!None, "regroup"}
    BY <1>8, NoneAre DEF Obs
  <2>2. ASSUME NEW o \in Obs, o = pass' PROVE ThreadInv'
    <3>1. o.at \in {S!None, "regroup"}
      BY <2>1, <2>2
    <3>2. ThreadRead(o) /\ Ordered(o, job) /\ Ordered(job, o) /\ Placed(o)
      BY <3>1 DEF ThreadRead, Ordered, Placed, ThreadOpen, S!None
    <3>3. ThreadRead(job) /\ Placed(job)
      BY DEF ThreadInv, Observed
    <3> QED BY <1>3, <1>4, <1>6, <1>8, <2>2, <3>1, <3>2, <3>3 DEF S!None
  <2> QED BY <2>1, <2>2
<1> QED BY <1>5, <1>7, <1>8 DEF S!StartProbe

-----------------------------------------------------------------------------

(* The invariant holds at first. *)
LEMMA ThreadInvInit == ASSUME S!Parameters, S!Init PROVE ThreadInv
<1>1. thread \in [rev : 1 .. MaxRev, is : {"needs", "done", "gone"}] /\ thread.rev = 1
  BY DEF S!Parameters, S!Init
<1>2. /\ loop \in LoopState /\ loop.at = "read" /\ loop.row = S!NoRow
      /\ facts = S!NoRow /\ grouped = S!NoGroup /\ lock = S!None /\ probe = S!NoProbe
      /\ pass = S!NoObs /\ job = S!NoObs /\ floor = 0 /\ missed = FALSE /\ cache = S!NoEntry
  BY NoneAre DEF S!Init, S!NewDeck, LoopState
<1>3. ThreadTyped
  <2>1. 0 \in 0 .. MaxRev
    BY DEF S!Parameters
  <2>2. facts \in Row /\ grouped \in Grouping /\ lock = S!None /\ missed \in BOOLEAN
    BY <1>2, NoneAre
  <2>3. probe \in Probe /\ pass \in Obs /\ job \in Obs /\ cache \in ThreadEntry
    BY <1>2, NoneAre
  <2> QED BY <1>1, <1>2, <2>1, <2>2, <2>3 DEF ThreadTyped
<1>4. Observed
  BY <1>1, <1>2, NoneAre DEF Observed, ThreadOpen, ThreadRead, Ordered, Placed, S!Never, S!None
<1>5. ThreadLocked /\ Grouped /\ S!ChangesAreSeen
  BY <1>2, NoneAre DEF ThreadLocked, Grouped, S!ChangesAreSeen, S!Never, S!None
<1> QED BY <1>3, <1>4, <1>5 DEF ThreadInv

(* Every step keeps it. *)
LEMMA ThreadInvNext == ASSUME S!Parameters, ThreadInv, [S!Next]_S!vars PROVE ThreadInv'
<1>1. CASE S!ReadFacts \/ S!GroupFacts \/ S!PublishFacts \/ S!Prune \/ S!FailFacts \/ S!StartProbe
  BY <1>1, ReadFactsKeeps, GroupFactsKeeps, PublishFactsKeeps, PruneKeeps, FailFactsKeeps,
     StartProbeKeeps
<1>2. CASE S!ReadRevision \/ S!PublishProbe \/ S!RegroupPass
  BY <1>2, ReadRevisionKeeps, PublishProbeKeeps, RegroupPassKeeps
<1>3. CASE S!StartJob \/ S!ReadMessages \/ S!PublishMessages \/ S!Summarize \/ S!RegroupJob
  BY <1>3, StartJobKeeps, ReadMessagesKeeps, PublishMessagesKeeps, SummarizeKeeps,
     RegroupJobKeeps
<1>4. CASE S!Change \/ S!Restart
  BY <1>4, ChangeKeeps, RestartKeeps
<1>5. CASE UNCHANGED S!vars
  BY <1>5 DEF S!vars, ThreadInv, ThreadTyped, Observed, ThreadOpen, ThreadRead, Ordered, Placed,
     ThreadLocked, Grouped, S!ChangesAreSeen
<1> QED BY <1>1, <1>2, <1>3, <1>4, <1>5 DEF S!Next

(* The invariant always holds. *)
LEMMA ThreadInvariance == ASSUME S!Parameters PROVE S!Spec => []ThreadInv
<1>1. S!Init => ThreadInv
  BY ThreadInvInit
<1>2. ThreadInv /\ [S!Next]_S!vars => ThreadInv'
  BY ThreadInvNext
<1> QED BY <1>1, <1>2, PTL DEF S!Spec

(* Every part of the state has its type, for any number of revisions. *)
THEOREM ThreadTypeCorrect ==
    ASSUME S!Parameters
    PROVE  S!Spec => []S!TypeOK
<1>1. ThreadInv => S!TypeOK
  BY DEF ThreadInv, ThreadTyped, S!TypeOK, Row, Probe, ThreadEntry
<1> QED BY <1>1, ThreadInvariance, PTL

(* A change of the thread is seen, whichever of the pass and the job observes *)
(* it first, publishes late, fails or is restarted (publishProbeLocked,       *)
(* recordFailure, knownProbeLocked).                                          *)
THEOREM ThreadChangesAreSeen ==
    ASSUME S!Parameters
    PROVE  S!Spec => []S!ChangesAreSeen
<1>1. ThreadInv => S!ChangesAreSeen
  BY DEF ThreadInv
<1> QED BY <1>1, ThreadInvariance, PTL

(* What is shown is of one piece, and of the last summary once no job is about *)
(* to show it, however the loop, the pass and the job meet at the refresh lock *)
(* (refreshFacts, regroup).                                                    *)
THEOREM SummariesShownTogether ==
    ASSUME S!Parameters
    PROVE  S!Spec => []S!ShownTogether
<1>1. ThreadInv => S!ShownTogether
  BY DEF ThreadInv, Grouped, S!ShownTogether, S!None
<1> QED BY <1>1, ThreadInvariance, PTL

-----------------------------------------------------------------------------
(***************************************************************************)
(* Queues that hold nothing twice, for SummaryQueue and VerdictQueue.      *)
(***************************************************************************)

Members(q) == {q[i] : i \in DOMAIN q}
Single(q) == \A i, j \in DOMAIN q : i # j => q[i] # q[j]

(* An order of a finite set has all of it. *)
LEMMA OrderIs ==
    ASSUME NEW B, NEW A \in SUBSET B, IsFiniteSet(A),
           NEW q \in [1 .. Cardinality(A) -> A], Single(q)
    PROVE  q \in Seq(B) /\ Members(q) = A
<1>1. Cardinality(A) \in Nat
  BY FS_CardinalityType
<1>2. DOMAIN q = 1 .. Cardinality(A) /\ q \in [1 .. Cardinality(A) -> B]
  OBVIOUS
<1>3. q \in Seq(B)
  BY <1>1, <1>2, FunctionIsSeq
<1>4. q \in Injection(1 .. Cardinality(A), A)
  BY <1>2 DEF Single, Injection, IsInjective
<1>5. Cardinality(1 .. Cardinality(A)) = Cardinality(A)
  BY <1>1, FS_Interval
<1>6. q \in Surjection(1 .. Cardinality(A), A)
  BY <1>4, <1>5, FS_Injection
<1> QED BY <1>2, <1>3, <1>6 DEF Surjection, Members

(* Two of them after one another. *)
LEMMA ConcatIs ==
    ASSUME NEW A, NEW p \in Seq(A), NEW q \in Seq(A), Single(p), Single(q),
           Members(p) \cap Members(q) = {}
    PROVE  /\ p \o q \in Seq(A) /\ Single(p \o q)
           /\ Members(p \o q) = Members(p) \cup Members(q)
<1>1. /\ p \o q \in Seq(A) /\ Len(p) \in Nat /\ Len(q) \in Nat
      /\ DOMAIN p = 1 .. Len(p) /\ DOMAIN q = 1 .. Len(q)
      /\ DOMAIN (p \o q) = 1 .. Len(p) + Len(q)
  OBVIOUS
<1>2. ASSUME NEW i \in DOMAIN (p \o q)
      PROVE  \/ i \in DOMAIN p /\ (p \o q)[i] = p[i]
             \/ i - Len(p) \in DOMAIN q /\ i \notin DOMAIN p /\ (p \o q)[i] = q[i - Len(p)]
  BY <1>1
<1>3. ASSUME NEW i \in DOMAIN p PROVE i \in DOMAIN (p \o q) /\ (p \o q)[i] = p[i]
  BY <1>1
<1>4. ASSUME NEW i \in DOMAIN q
      PROVE  i + Len(p) \in DOMAIN (p \o q) /\ (p \o q)[i + Len(p)] = q[i]
  BY <1>1
<1> DEFINE r == p \o q
<1>5. Members(r) = Members(p) \cup Members(q)
  <2>1. Members(r) \subseteq Members(p) \cup Members(q)
    BY <1>2 DEF Members
  <2>2. Members(p) \subseteq Members(r)
    BY <1>3 DEF Members
  <2>3. Members(q) \subseteq Members(r)
    BY <1>4 DEF Members
  <2> QED BY <2>1, <2>2, <2>3
<1>6. ASSUME NEW i \in DOMAIN r, NEW j \in DOMAIN r, i # j PROVE r[i] # r[j]
  <2>1. i \in Int /\ j \in Int /\ i - Len(p) # j - Len(p)
    BY <1>1, <1>6
  <2>2. CASE i \in DOMAIN p /\ j \in DOMAIN p
    BY <1>3, <1>6, <2>2 DEF Single
  <2>3. CASE i \notin DOMAIN p /\ j \notin DOMAIN p
    <3> HIDE DEF r
    <3>1. /\ i - Len(p) \in DOMAIN q /\ r[i] = q[i - Len(p)]
          /\ j - Len(p) \in DOMAIN q /\ r[j] = q[j - Len(p)]
      BY <1>2, <2>3 DEF r
    <3> QED BY <2>1, <3>1 DEF Single
  <2>4. CASE i \in DOMAIN p /\ j \notin DOMAIN p
    <3> HIDE DEF r
    <3>1. r[i] = p[i] /\ j - Len(p) \in DOMAIN q /\ r[j] = q[j - Len(p)]
      BY <1>2, <1>3, <2>4 DEF r
    <3>2. r[i] \in Members(p) /\ r[j] \in Members(q)
      BY <2>4, <3>1 DEF Members
    <3> QED BY <3>2
  <2>5. CASE i \notin DOMAIN p /\ j \in DOMAIN p
    <3> HIDE DEF r
    <3>1. r[j] = p[j] /\ i - Len(p) \in DOMAIN q /\ r[i] = q[i - Len(p)]
      BY <1>2, <1>3, <2>5 DEF r
    <3>2. r[j] \in Members(p) /\ r[i] \in Members(q)
      BY <2>5, <3>1 DEF Members
    <3> QED BY <3>2
  <2> QED BY <2>2, <2>3, <2>4, <2>5
<1> QED BY <1>1, <1>5, <1>6 DEF Single

(* One alone. *)
LEMMA OneIs ==
    ASSUME NEW A, NEW x \in A
    PROVE  <<x>> \in Seq(A) /\ Single(<<x>>) /\ Members(<<x>>) = {x}
<1>1. <<x>> \in Seq(A) /\ DOMAIN <<x>> = {1} /\ <<x>>[1] = x
  OBVIOUS
<1> DEFINE q == <<x>>
<1> HIDE DEF q
<1>2. DOMAIN q = {1} /\ q[1] = x
  BY <1>1 DEF q
<1>3. Single(q) /\ Members(q) = {x}
  BY <1>2 DEF Single, Members
<1> QED BY <1>1, <1>3 DEF q

(* One in front of others. *)
LEMMA InFrontIs ==
    ASSUME NEW A, NEW x \in A, NEW q \in Seq(A), Single(q), x \notin Members(q)
    PROVE  /\ <<x>> \o q \in Seq(A) /\ Single(<<x>> \o q)
           /\ Members(<<x>> \o q) = {x} \cup Members(q)
<1> DEFINE p == <<x>>
<1>1. p \in Seq(A) /\ Single(p) /\ Members(p) = {x}
  BY OneIs
<1> HIDE DEF p
<1>2. Members(p) \cap Members(q) = {}
  BY <1>1
<1>3. p \o q \in Seq(A) /\ Single(p \o q) /\ Members(p \o q) = Members(p) \cup Members(q)
  BY <1>1, <1>2, ConcatIs
<1> QED BY <1>1, <1>3 DEF p

(* The first goes. *)
LEMMA TailIs ==
    ASSUME NEW A, NEW q \in Seq(A), q # <<>>, Single(q)
    PROVE  /\ Tail(q) \in Seq(A) /\ Single(Tail(q))
           /\ Head(q) \in A /\ Head(q) \in Members(q) /\ Members(Tail(q)) = Members(q) \ {Head(q)}
<1>1. /\ Tail(q) \in Seq(A) /\ Head(q) \in A /\ Head(q) = q[1] /\ 1 \in DOMAIN q
      /\ DOMAIN q = 1 .. Len(q) /\ Len(q) \in Nat
  OBVIOUS
<1>2. ASSUME NEW i \in DOMAIN Tail(q)
      PROVE  i \in Int /\ i + 1 \in DOMAIN q /\ i + 1 # 1 /\ Tail(q)[i] = q[i + 1]
  BY <1>1
<1>3. ASSUME NEW i \in DOMAIN q, i # 1 PROVE i - 1 \in DOMAIN Tail(q) /\ Tail(q)[i - 1] = q[i]
  BY <1>1, <1>3
<1> DEFINE r == Tail(q)
<1> HIDE DEF r
<1>4. Single(r)
  <2> SUFFICES ASSUME NEW i \in DOMAIN r, NEW j \in DOMAIN r, i # j PROVE r[i] # r[j]
    BY DEF Single
  <2>1. i \in Int /\ j \in Int /\ i + 1 \in DOMAIN q /\ j + 1 \in DOMAIN q /\ r[i] = q[i + 1] /\ r[j] = q[j + 1]
    BY <1>2 DEF r
  <2> QED BY <2>1 DEF Single
<1>5. Members(r) \subseteq Members(q) \ {Head(q)}
  BY <1>1, <1>2 DEF r, Members, Single
<1>6. Members(q) \ {Head(q)} \subseteq Members(r)
  BY <1>1, <1>3 DEF r, Members
<1> QED BY <1>1, <1>4, <1>5, <1>6 DEF r, Members

(* How often something is in it. *)
LEMMA CountIs ==
    ASSUME NEW q, Single(q), NEW x
    PROVE  Cardinality({i \in DOMAIN q : q[i] = x}) = IF x \in Members(q) THEN 1 ELSE 0
<1>1. CASE x \in Members(q)
  <2>1. PICK i \in DOMAIN q : q[i] = x
    BY <1>1 DEF Members
  <2>2. {j \in DOMAIN q : q[j] = x} = {i}
    BY <2>1 DEF Single
  <2> QED BY <1>1, <2>2, FS_Singleton
<1>2. CASE x \notin Members(q)
  <2>1. {j \in DOMAIN q : q[j] = x} = {}
    BY <1>2 DEF Members
  <2> QED BY <1>2, <2>1, FS_EmptySet
<1> QED BY <1>1, <1>2

-----------------------------------------------------------------------------
(***************************************************************************)
(* SummaryQueue.  A thread in the queue is there once and has no job       *)
(* (QueueSingle), and what is owed for it is either with its job, and then *)
(* not asked for again, or still asked for with its role, in the queue or  *)
(* until the job that runs has ended (Served).                             *)
(***************************************************************************)

CONSTANTS Thread, Role, SummaryRole, Concurrency, CallsPerHour, MaxRequests
VARIABLES needs, all, queue, manual, calls, owed, requests

Q == INSTANCE SummaryQueue

SumRole == Role \cup {Q!None, SummaryRole}
JobState == [at : {Q!None, "find", "call", "backup", "end"}, role : SumRole, again : BOOLEAN]
OwedState == [role : SumRole, started : BOOLEAN]

\* The type invariant, of the whole state.
QueueTyped ==
    /\ needs \subseteq Thread /\ all \subseteq {"asked", "taken"}
    /\ queue \in Seq(Thread) /\ calls \in 0 .. CallsPerHour /\ requests \in 0 .. MaxRequests
    /\ manual \in [Thread -> SumRole] /\ job \in [Thread -> JobState]
    /\ owed \in [Thread -> OwedState]

QueueSingle == Single(queue) /\ \A t \in Members(queue) : job[t].at = Q!None

Served(t) ==
    /\ owed[t].started => /\ job[t].at # Q!None /\ job[t].role = owed[t].role
                          /\ manual[t] = Q!None
    /\ owed[t].role # Q!None /\ ~ owed[t].started
          => manual[t] = owed[t].role /\ (job[t].at # Q!None \/ t \in Members(queue))

QueueInv == QueueTyped /\ QueueSingle /\ \A t \in Thread : Served(t)

-----------------------------------------------------------------------------

(* The parts of the state. *)
LEMMA QueueStateIs ==
    ASSUME Q!Parameters, QueueInv
    PROVE  /\ needs \subseteq Thread /\ all \subseteq {"asked", "taken"}
           /\ queue \in Seq(Thread) /\ Single(queue) /\ Members(queue) \subseteq Thread
           /\ calls \in 0 .. CallsPerHour /\ requests \in 0 .. MaxRequests
           /\ CallsPerHour \in Nat /\ MaxRequests \in Nat
           /\ \A t \in Thread : /\ manual[t] \in SumRole /\ job[t] \in JobState
                                /\ owed[t] \in OwedState /\ Served(t)
           /\ \A t \in Members(queue) : job[t].at = Q!None
BY DEF QueueInv, QueueTyped, QueueSingle, Q!Parameters, Members

(* The same sets are finite, and of one size, in the instance. *)
LEMMA QueueFiniteIs ==
    ASSUME NEW A
    PROVE  Q!IsFiniteSet(A) = IsFiniteSet(A) /\ Q!Cardinality(A) = Cardinality(A)
<1>1. Q!IsFiniteSet(A) = IsFiniteSet(A)
  BY DEF Q!IsFiniteSet, IsFiniteSet
<1>2. Q!Cardinality(A) = Cardinality(A)
  BY DEF Q!Cardinality, Cardinality
<1> QED BY <1>1, <1>2

(* The threads of a set in an order. *)
LEMMA ThreadsAre ==
    ASSUME Q!Parameters, NEW A \in SUBSET Thread, NEW q \in Q!SetToSeqs(A)
    PROVE  q \in Seq(Thread) /\ Single(q) /\ Members(q) = A
<1>1. IsFiniteSet(A)
  BY QueueFiniteIs, FS_Subset DEF Q!Parameters
<1>2. q \in [1 .. Cardinality(A) -> A] /\ Single(q)
  BY QueueFiniteIs DEF Q!SetToSeqs, Single
<1> QED BY <1>1, <1>2, OrderIs

(* What is left of the queue. *)
LEMMA LeftIs ==
    ASSUME Q!Parameters, QueueInv, NEW A, NEW q \in Q!Left(A)
    PROVE  q \in Seq(Thread) /\ Single(q) /\ Members(q) = A \cap Members(queue)
<1>1. Q!ToSet(queue) = Members(queue)
  BY DEF Q!ToSet, Members
<1>2. q \in Q!SetToSeqs(A \cap Members(queue)) /\ A \cap Members(queue) \in SUBSET Thread
  BY <1>1, QueueStateIs DEF Q!Left
<1> QED BY <1>2, ThreadsAre

-----------------------------------------------------------------------------

(* A request by hand replaces what is owed. *)
LEMMA RequestKeeps ==
    ASSUME Q!Parameters, QueueInv, NEW t \in Thread, NEW role \in Role, Q!Request(t, role)
    PROVE  QueueInv'
<1>1. /\ manual' = [manual EXCEPT ![t] = role] /\ owed' = [owed EXCEPT ![t] = Q!Owe(role)]
      /\ requests' \in 0 .. MaxRequests /\ UNCHANGED <<needs, all, job, calls>>
  BY QueueStateIs DEF Q!Request
<1>2. Q!Owe(role) \in OwedState /\ Q!Owe(role).role = role /\ ~ Q!Owe(role).started
  BY DEF Q!Owe, OwedState, SumRole
<1>3. /\ queue' \in Seq(Thread) /\ Single(queue') /\ Members(queue) \subseteq Members(queue')
      /\ \A k \in Members(queue') : job[k].at = Q!None
      /\ job[t].at # Q!None \/ t \in Members(queue')
  <2>1. CASE t \in Q!InFlight
    BY <2>1, QueueStateIs DEF Q!Request, Q!InFlight
  <2>2. CASE t \notin Q!InFlight
    <3>1. PICK rest \in Q!Left(Thread \ {t}) : queue' = <<t>> \o rest
      BY <2>2 DEF Q!Request
    <3>2. rest \in Seq(Thread) /\ Single(rest) /\ Members(rest) = (Thread \ {t}) \cap Members(queue)
      BY <3>1, LeftIs
    <3>3. /\ queue' \in Seq(Thread) /\ Single(queue')
          /\ Members(queue') = {t} \cup Members(rest)
      BY <3>1, <3>2, InFrontIs
    <3>4. job[t].at = Q!None
      BY <2>2 DEF Q!InFlight
    <3> QED BY <3>2, <3>3, <3>4, QueueStateIs
  <2> QED BY <2>1, <2>2
<1>4. QueueTyped'
  BY <1>1, <1>2, <1>3 DEF QueueInv, QueueTyped, SumRole
<1>5. QueueSingle'
  BY <1>1, <1>3 DEF QueueSingle
<1>6. ASSUME NEW k \in Thread PROVE Served(k)'
  <2>1. CASE k = t
    BY <1>1, <1>2, <1>3, <2>1 DEF Served, QueueInv, QueueTyped
  <2>2. CASE k # t
    BY <1>1, <1>3, <2>2, QueueStateIs DEF Served, QueueInv, QueueTyped
  <2> QED BY <2>1, <2>2
<1> QED BY <1>4, <1>5, <1>6 DEF QueueInv

(* Refresh now owes what was not asked for. *)
LEMMA QueueAllKeeps ==
    ASSUME Q!Parameters, QueueInv, Q!QueueAll
    PROVE  QueueInv'
<1> DEFINE new == needs \ Q!Asked
<1>1. /\ manual' = [t \in Thread |-> IF t \in new THEN SummaryRole ELSE manual[t]]
      /\ owed' = [t \in Thread |-> IF t \in new THEN Q!Owe(SummaryRole) ELSE owed[t]]
      /\ all' \subseteq {"asked", "taken"} /\ UNCHANGED <<needs, job, calls, requests>>
  BY QueueStateIs DEF Q!QueueAll
<1>2. /\ Q!Owe(SummaryRole) \in OwedState /\ Q!Owe(SummaryRole).role = SummaryRole
      /\ ~ Q!Owe(SummaryRole).started
  BY DEF Q!Owe, OwedState, SumRole
<1>3. PICK pending \in Q!Left(Q!Asked), order \in Q!SetToSeqs(new \ Q!InFlight),
           rest \in Q!Left(Thread \ (Q!Asked \cup new)) : queue' = pending \o order \o rest
  BY DEF Q!QueueAll
<1>4. /\ new \subseteq Thread
      /\ pending \in Seq(Thread) /\ Single(pending) /\ Members(pending) = Q!Asked \cap Members(queue)
      /\ order \in Seq(Thread) /\ Single(order) /\ Members(order) = new \ Q!InFlight
      /\ rest \in Seq(Thread) /\ Single(rest)
      /\ Members(rest) = (Thread \ (Q!Asked \cup new)) \cap Members(queue)
  <2>1. new \subseteq Thread /\ new \ Q!InFlight \in SUBSET Thread
    BY QueueStateIs
  <2> HIDE DEF new
  <2>2. order \in Seq(Thread) /\ Single(order) /\ Members(order) = new \ Q!InFlight
    BY <2>1, ThreadsAre
  <2> QED BY <2>1, <2>2, LeftIs
<1>5. new \cap Q!Asked = {}
  OBVIOUS
<1> HIDE DEF new
<1>6. /\ pending \o order \in Seq(Thread) /\ Single(pending \o order)
      /\ Members(pending \o order) = Members(pending) \cup Members(order)
  BY <1>4, <1>5, ConcatIs
<1>7. /\ queue' \in Seq(Thread) /\ Single(queue')
      /\ Members(queue') = Members(pending) \cup Members(order) \cup Members(rest)
  <2>1. Members(pending \o order) \cap Members(rest) = {}
    BY <1>4, <1>6
  <2> DEFINE first == pending \o order
  <2> HIDE DEF first
  <2>2. first \in Seq(Thread) /\ Single(first) /\ Members(first) \cap Members(rest) = {}
    BY <1>6, <2>1 DEF first
  <2>3. /\ first \o rest \in Seq(Thread) /\ Single(first \o rest)
        /\ Members(first \o rest) = Members(first) \cup Members(rest)
    BY <1>4, <2>2, ConcatIs
  <2> QED BY <1>3, <1>6, <2>3 DEF first
<1>8. /\ \A t \in Members(queue) : t \in Members(queue')
      /\ \A t \in Members(queue') : job[t].at = Q!None
      /\ \A t \in new : job[t].at # Q!None \/ t \in Members(queue')
  <2>1. \A t \in Thread : t \in Q!InFlight <=> job[t].at # Q!None
    BY DEF Q!InFlight
  <2> QED BY <1>4, <1>7, <2>1, QueueStateIs
<1>9. QueueTyped'
  BY <1>1, <1>2, <1>7, QueueStateIs DEF QueueInv, QueueTyped, SumRole
<1>10. QueueSingle'
  BY <1>1, <1>7, <1>8 DEF QueueSingle
<1>11. ASSUME NEW k \in Thread PROVE Served(k)'
  <2>1. CASE k \in new
    BY <1>1, <1>2, <1>8, <2>1 DEF Served
  <2>2. CASE k \notin new
    BY <1>1, <1>8, <2>2, QueueStateIs DEF Served
  <2> QED BY <2>1, <2>2
<1> QED BY <1>9, <1>10, <1>11 DEF QueueInv

(* The schedule keeps what was asked for. *)
LEMMA ScheduleKeeps ==
    ASSUME Q!Parameters, QueueInv, Q!Schedule
    PROVE  QueueInv'
<1>1. UNCHANGED <<needs, all, manual, job, calls, owed, requests>>
  BY DEF Q!Schedule
<1>2. PICK candidates \in SUBSET (needs \ (Q!Asked \cup Q!InFlight)) :
        \E kept \in Q!Left(Q!Asked \ Q!InFlight), rest \in Q!SetToSeqs(candidates) :
           queue' = kept \o rest
  BY DEF Q!Schedule
<1>3. PICK kept \in Q!Left(Q!Asked \ Q!InFlight), rest \in Q!SetToSeqs(candidates) :
        queue' = kept \o rest
  BY <1>2
<1>4. /\ candidates \in SUBSET Thread
      /\ kept \in Seq(Thread) /\ Single(kept)
      /\ Members(kept) = (Q!Asked \ Q!InFlight) \cap Members(queue)
      /\ rest \in Seq(Thread) /\ Single(rest) /\ Members(rest) = candidates
  BY <1>2, <1>3, LeftIs, ThreadsAre, QueueStateIs
<1>5. /\ queue' \in Seq(Thread) /\ Single(queue')
      /\ Members(queue') = Members(kept) \cup Members(rest)
  BY <1>3, <1>4, ConcatIs
<1>6. \A t \in Members(queue') : job[t].at = Q!None
  <2>1. \A t \in candidates : t \in Thread /\ t \notin Q!InFlight
    BY <1>2, QueueStateIs
  <2>2. Members(queue') \subseteq Members(queue) \cup candidates
    BY <1>4, <1>5
  <2> QED BY <2>1, <2>2, QueueStateIs DEF Q!InFlight
<1>7. \A t \in Members(queue) : manual[t] # Q!None => t \in Members(queue')
  BY <1>4, <1>5, QueueStateIs DEF Q!InFlight, Q!Asked
<1>8. QueueTyped' /\ QueueSingle'
  BY <1>1, <1>5, <1>6 DEF QueueInv, QueueTyped, QueueSingle
<1>9. ASSUME NEW k \in Thread PROVE Served(k)'
  BY <1>1, <1>7, QueueStateIs DEF Served
<1> QED BY <1>8, <1>9 DEF QueueInv

(* A job takes the role and what is owed. *)
LEMMA QueueStartKeeps ==
    ASSUME Q!Parameters, QueueInv, Q!StartJob
    PROVE  QueueInv'
<1> DEFINE t == Head(queue)
           n == [Q!NoJob EXCEPT !.at = "find", !.role = manual[t]]
<1>1. /\ job' = [job EXCEPT ![t] = n] /\ manual' = [manual EXCEPT ![t] = Q!None]
      /\ owed' = [owed EXCEPT ![t].started = owed[t].role # Q!None]
      /\ queue # <<>> /\ queue' = Tail(queue) /\ UNCHANGED <<needs, all, calls, requests>>
  BY DEF Q!StartJob
<1>2. /\ queue' \in Seq(Thread) /\ Single(queue') /\ t \in Thread /\ t \in Members(queue)
      /\ Members(queue') = Members(queue) \ {t}
  BY <1>1, TailIs, QueueStateIs
<1> HIDE DEF t
<1>3. n \in JobState /\ n.at = "find" /\ n.role = manual[t]
  BY <1>2, QueueStateIs DEF Q!NoJob, JobState, SumRole
<1> HIDE DEF n
<1>4. QueueTyped'
  BY <1>1, <1>2, <1>3 DEF QueueInv, QueueTyped, SumRole, OwedState
<1>5. QueueSingle'
  BY <1>1, <1>2, QueueStateIs DEF QueueSingle, QueueInv, QueueTyped
<1>6. ASSUME NEW k \in Thread PROVE Served(k)'
  <2>1. CASE k = t
    <3>1. job[t].at = Q!None /\ Served(t) /\ owed[t] \in OwedState
      BY <1>2, QueueStateIs
    <3>2. job'[t] = n /\ manual'[t] = Q!None
      BY <1>1, <1>2 DEF QueueInv, QueueTyped
    <3>3. owed'[t].role = owed[t].role /\ owed'[t].started = (owed[t].role # Q!None)
      BY <1>1, <1>2, <3>1 DEF QueueInv, QueueTyped, OwedState
    <3>4. ~ owed[t].started /\ n.at # Q!None
      BY <1>3, <3>1 DEF Served, Q!None
    <3> QED BY <1>3, <2>1, <3>1, <3>2, <3>3, <3>4 DEF Served
  <2>2. CASE k # t
    <3>1. job'[k] = job[k] /\ manual'[k] = manual[k] /\ owed'[k] = owed[k]
      BY <1>1, <1>2, <2>2 DEF QueueInv, QueueTyped
    <3> QED BY <1>2, <2>2, <3>1, QueueStateIs DEF Served
  <2> QED BY <2>1, <2>2
<1> QED BY <1>4, <1>5, <1>6 DEF QueueInv

(* A job goes on. *)
LEMMA GoesOnKeeps ==
    ASSUME Q!Parameters, QueueInv, NEW t \in Thread, job[t].at # Q!None,
           NEW n \in JobState, n.at # Q!None, n.role = job[t].role,
           job' = [job EXCEPT ![t] = n], calls' \in 0 .. CallsPerHour,
           UNCHANGED <<needs, all, queue, manual, owed, requests>>
    PROVE  QueueInv'
<1>1. job'[t] = n /\ \A k \in Thread : k # t => job'[k] = job[k]
  BY DEF QueueInv, QueueTyped
<1>2. QueueTyped'
  BY DEF QueueInv, QueueTyped
<1>3. QueueSingle'
  BY <1>1, QueueStateIs DEF QueueSingle
<1>4. ASSUME NEW k \in Thread PROVE Served(k)'
  BY <1>1, QueueStateIs DEF Served
<1> QED BY <1>2, <1>3, <1>4 DEF QueueInv

(* A step of a job that is at work. *)
LEMMA StepGoesOn ==
    ASSUME Q!Parameters, QueueInv, NEW t \in Thread,
           NEW from \in {"find", "call", "backup"}, NEW to \in {"call", "backup", "end"},
           Q!Step(t, from, to), calls' \in 0 .. CallsPerHour,
           UNCHANGED <<needs, all, queue, manual, owed, requests>>
    PROVE  QueueInv'
<1> DEFINE n == [job[t] EXCEPT !.at = to]
<1>1. n \in JobState /\ n.at # Q!None /\ n.role = job[t].role /\ job[t].at # Q!None
  BY QueueStateIs DEF JobState, Q!Step, Q!None
<1>2. job' = [job EXCEPT ![t] = n]
  BY DEF Q!Step, QueueInv, QueueTyped
<1> HIDE DEF n
<1> QED BY <1>1, <1>2, GoesOnKeeps

(* A job finds its thread, calls a model, or its backup. *)
LEMMA JobKeeps ==
    ASSUME Q!Parameters, QueueInv, NEW t \in Thread, Q!FindThread(t) \/ Q!Call(t) \/ Q!CallBackup(t)
    PROVE  QueueInv'
<1>1. CASE Q!FindThread(t)
  BY <1>1, StepGoesOn, QueueStateIs DEF Q!FindThread
<1>2. Q!BudgetLeft => calls + 1 \in 0 .. CallsPerHour
  BY QueueStateIs DEF Q!BudgetLeft
<1>3. CASE Q!CallBackup(t)
  BY <1>2, <1>3, StepGoesOn, QueueStateIs DEF Q!CallBackup
<1>4. CASE Q!Call(t)
  <2>1. CASE Q!BudgetLeft
    BY <1>2, <1>4, <2>1, StepGoesOn DEF Q!Call
  <2>2. CASE ~ Q!BudgetLeft
    <3> DEFINE n == [job[t] EXCEPT !.at = "end", !.again = TRUE]
    <3>1. /\ n \in JobState /\ n.at # Q!None /\ n.role = job[t].role /\ job[t].at # Q!None
          /\ UNCHANGED <<needs, all, queue, manual, owed, requests>>
          /\ calls' \in 0 .. CallsPerHour
      BY <1>4, <2>2, QueueStateIs DEF JobState, Q!Call, Q!None
    <3>2. job' = [job EXCEPT ![t] = n]
      BY <1>4, <2>2 DEF Q!Call, QueueInv, QueueTyped
    <3> HIDE DEF n
    <3> QED BY <3>1, <3>2, GoesOnKeeps
  <2> QED BY <2>1, <2>2
<1> QED BY <1>1, <1>3, <1>4

(* A job that ends has served its thread, or gives back what is owed. *)
LEMMA EndJobKeeps ==
    ASSUME Q!Parameters, QueueInv, NEW t \in Thread, Q!EndJob(t)
    PROVE  QueueInv'
<1> DEFINE o == IF ~ owed[t].started THEN owed[t]
                ELSE IF job[t].again THEN Q!Owe(owed[t].role) ELSE Q!NotOwed
<1>1. /\ job[t].at = "end" /\ job' = [job EXCEPT ![t] = Q!NoJob]
      /\ queue' = IF job[t].again \/ manual[t] # Q!None THEN <<t>> \o queue ELSE queue
      /\ manual' = [manual EXCEPT ![t] = Q!RoleAfter(t)] /\ owed' = [owed EXCEPT ![t] = o]
      /\ UNCHANGED <<needs, all, calls, requests>>
  BY DEF Q!EndJob, QueueInv, QueueTyped
<1>2. job[t] \in JobState /\ owed[t] \in OwedState /\ manual[t] \in SumRole /\ Served(t)
  BY QueueStateIs
<1>3. /\ o \in OwedState /\ ~ o.started
      /\ o.role # Q!None => o.role = owed[t].role /\ (owed[t].started => job[t].again)
  BY <1>2 DEF OwedState, Q!Owe, Q!NotOwed, SumRole
<1> HIDE DEF o
<1>4. Q!RoleAfter(t) \in SumRole /\ Q!NoJob \in JobState /\ Q!NoJob.at = Q!None
  BY <1>2 DEF Q!RoleAfter, JobState, Q!NoJob, SumRole
<1>5. t \notin Members(queue)
  BY <1>1, QueueStateIs DEF Q!None
<1>6. /\ queue' \in Seq(Thread) /\ Single(queue') /\ Members(queue) \subseteq Members(queue')
      /\ Members(queue') \subseteq {t} \cup Members(queue)
      /\ job[t].again \/ manual[t] # Q!None => t \in Members(queue')
  BY <1>1, <1>5, InFrontIs, QueueStateIs
<1>7. /\ job'[t] = Q!NoJob /\ manual'[t] = Q!RoleAfter(t) /\ owed'[t] = o
      /\ \A k \in Thread : k # t => /\ job'[k] = job[k] /\ manual'[k] = manual[k]
                                    /\ owed'[k] = owed[k]
  BY <1>1 DEF QueueInv, QueueTyped
<1>8. QueueTyped'
  BY <1>1, <1>3, <1>4, <1>6 DEF QueueInv, QueueTyped
<1>9. QueueSingle'
  BY <1>4, <1>6, <1>7, QueueStateIs DEF QueueSingle
<1>10. ASSUME NEW k \in Thread PROVE Served(k)'
  <2>1. CASE k = t
    <3>1. o.role # Q!None => /\ job[t].again \/ manual[t] # Q!None
                             /\ Q!RoleAfter(t) = o.role
      BY <1>1, <1>2, <1>3 DEF Served, Q!RoleAfter
    <3> QED BY <1>3, <1>4, <1>6, <1>7, <2>1, <3>1 DEF Served
  <2>2. CASE k # t
    BY <1>6, <1>7, <2>2, QueueStateIs DEF Served
  <2> QED BY <2>1, <2>2
<1> QED BY <1>8, <1>9, <1>10 DEF QueueInv

(* What leaves queue, jobs and requests alone. *)
LEMMA OutsideKeeps ==
    ASSUME Q!Parameters, QueueInv, UNCHANGED <<queue, manual, job, owed>>,
           needs' \subseteq Thread, all' \subseteq {"asked", "taken"},
           calls' \in 0 .. CallsPerHour, requests' \in 0 .. MaxRequests
    PROVE  QueueInv'
BY DEF QueueInv, QueueTyped, QueueSingle, Served

-----------------------------------------------------------------------------

(* The invariant holds at first. *)
LEMMA QueueInvInit == ASSUME Q!Parameters, Q!Init PROVE QueueInv
<1>1. queue = <<>> /\ <<>> \in Seq(Thread) /\ DOMAIN <<>> = {}
  BY DEF Q!Init
<1>2. Single(queue) /\ Members(queue) = {}
  BY <1>1 DEF Single, Members
<1>3. /\ Q!NoJob \in JobState /\ Q!NotOwed \in OwedState /\ Q!None \in SumRole
      /\ Q!NotOwed.role = Q!None /\ ~ Q!NotOwed.started
  BY DEF Q!NoJob, JobState, Q!NotOwed, OwedState, SumRole
<1>4. QueueTyped
  BY <1>1, <1>3 DEF QueueTyped, Q!Init, Q!Parameters
<1>5. QueueSingle
  BY <1>2 DEF QueueSingle
<1>6. ASSUME NEW t \in Thread PROVE Served(t)
  BY <1>3 DEF Served, Q!Init
<1> QED BY <1>4, <1>5, <1>6 DEF QueueInv

(* Every step keeps it. *)
LEMMA QueueInvNext == ASSUME Q!Parameters, QueueInv, [Q!Next]_Q!vars PROVE QueueInv'
<1>1. CASE Q!RequestAll
  BY <1>1, OutsideKeeps, QueueStateIs DEF Q!RequestAll
<1>2. CASE Q!TakeAll
  BY <1>2, OutsideKeeps, QueueStateIs DEF Q!TakeAll
<1>3. CASE Q!PublishFacts
  BY <1>3, OutsideKeeps, QueueStateIs DEF Q!PublishFacts
<1>4. CASE Q!EndHour
  BY <1>4, OutsideKeeps, QueueStateIs DEF Q!EndHour
<1>5. CASE Q!QueueAll \/ Q!Schedule \/ Q!StartJob
  BY <1>5, QueueAllKeeps, ScheduleKeeps, QueueStartKeeps
<1>6. CASE \E t \in Thread : Q!FindThread(t) \/ Q!Call(t) \/ Q!CallBackup(t) \/ Q!EndJob(t)
  BY <1>6, JobKeeps, EndJobKeeps
<1>7. CASE \E t \in Thread, role \in Role : Q!Request(t, role)
  BY <1>7, RequestKeeps
<1>8. CASE UNCHANGED Q!vars
  BY <1>8, OutsideKeeps, QueueStateIs DEF Q!vars
<1> QED BY <1>1, <1>2, <1>3, <1>4, <1>5, <1>6, <1>7, <1>8 DEF Q!Next

(* The invariant always holds. *)
LEMMA QueueInvariance == ASSUME Q!Parameters PROVE Q!Spec => []QueueInv
<1>1. Q!Init => QueueInv
  BY QueueInvInit
<1>2. QueueInv /\ [Q!Next]_Q!vars => QueueInv'
  BY QueueInvNext
<1> QED BY <1>1, <1>2, PTL DEF Q!Spec

(* Every part of the state has its type, for any threads, roles and budget. *)
THEOREM QueueTypeCorrect ==
    ASSUME Q!Parameters
    PROVE  Q!Spec => []Q!TypeOK
<1>1. QueueInv => Q!TypeOK
  BY DEF QueueInv, QueueTyped, Q!TypeOK, SumRole, JobState
<1> QED BY <1>1, QueueInvariance, PTL

(* What a person asked for is served with the role asked for last, by a job that *)
(* started later or goes back for want of budget; and no thread is queued twice  *)
(* or beside its own job (queueSummaryLocked, refreshInstance, schedule,         *)
(* startJobs, summarize).                                                        *)
THEOREM SummariesAreServed ==
    ASSUME Q!Parameters
    PROVE  Q!Spec => []Q!RequestsAreKept
<1>1. QueueInv => Q!RequestsAreKept
  <2> SUFFICES ASSUME QueueInv PROVE Q!RequestsAreKept
    OBVIOUS
  <2> SUFFICES ASSUME NEW t \in Thread
               PROVE  /\ owed[t].role # Q!None =>
                            IF owed[t].started THEN t \in Q!InFlight /\ job[t].role = owed[t].role
                            ELSE /\ manual[t] = owed[t].role
                                 /\ t \in Q!InFlight \/ t \in Q!ToSet(queue)
                      /\ Q!Cardinality({i \in DOMAIN queue : queue[i] = t})
                            <= IF t \in Q!InFlight THEN 0 ELSE 1
    BY DEF Q!RequestsAreKept
  <2>1. Q!ToSet(queue) = Members(queue) /\ (t \in Q!InFlight <=> job[t].at # Q!None)
    BY DEF Q!ToSet, Members, Q!InFlight
  <2>2. Served(t) /\ Single(queue) /\ (t \in Members(queue) => job[t].at = Q!None)
    BY QueueStateIs
  <2>3. Q!Cardinality({i \in DOMAIN queue : queue[i] = t}) = IF t \in Members(queue) THEN 1 ELSE 0
    BY <2>2, CountIs, QueueFiniteIs
  <2>4. Q!Cardinality({i \in DOMAIN queue : queue[i] = t}) <= IF t \in Q!InFlight THEN 0 ELSE 1
    BY <2>1, <2>2, <2>3
  <2> QED BY <2>1, <2>2, <2>4 DEF Served
<1> QED BY <1>1, QueueInvariance, PTL

-----------------------------------------------------------------------------
(***************************************************************************)
(* VerdictQueue.  An issue is queued, once, exactly when it was asked for  *)
(* by hand (ByHand).  No inventory is newer than the forges nor older than *)
(* what Refresh now found in one (BasisGrows), so a judgement that starts  *)
(* later is on a basis that is no older; what is owed is with it or still  *)
(* asked for (VerdictServed).                                              *)
(***************************************************************************)

CONSTANTS Issue, VerdictRole, MaxBasis
VARIABLES issue, refreshVerdicts, inv, judge, verdict, wanted

V == INSTANCE VerdictQueue

JudgeRole == Role \cup {VerdictRole}
Inventory == [Issue -> [basis : 0 .. MaxBasis, listed : BOOLEAN]]
Judging == [judging : Issue, basis : 0 .. MaxBasis, role : JudgeRole, byHand : BOOLEAN]
OwedVerdict == [role : JudgeRole \cup {V!None}, started : BOOLEAN]

\* The type invariant, of the whole state.
VerdictTyped ==
    /\ issue \in Inventory /\ inv \in Inventory /\ refreshVerdicts \in BOOLEAN
    /\ loop \in [at : {"start", "read", "publish"}, all : BOOLEAN, inv : Inventory]
    /\ queue \in Seq(Issue) /\ manual \in [Issue -> JudgeRole \cup {V!None}]
    /\ judge \in Judging \cup {V!Idle} /\ verdict \in [Issue -> 0 .. MaxBasis]
    /\ owed \in [Issue -> OwedVerdict]
    /\ wanted \in [Issue -> 0 .. MaxBasis] /\ requests \in 0 .. MaxRequests

ByHand == Single(queue) /\ \A i \in Issue : i \in Members(queue) <=> manual[i] # V!None

BasisGrows ==
    \A i \in Issue : /\ wanted[i] <= inv[i].basis /\ inv[i].basis <= issue[i].basis
                     /\ loop.at = "publish" => /\ inv[i].basis <= loop.inv[i].basis
                                               /\ loop.inv[i].basis <= issue[i].basis

VerdictServed(i) ==
    /\ owed[i].started => /\ owed[i].role # V!None /\ manual[i] = V!None
                          /\ judge.judging = i /\ judge.byHand /\ judge.role = owed[i].role
    /\ owed[i].role # V!None /\ ~ owed[i].started => manual[i] = owed[i].role
    /\ wanted[i] # 0 => i \in Members(queue) \/ (judge.judging = i /\ judge.basis >= wanted[i])

VerdictInv == VerdictTyped /\ ByHand /\ BasisGrows /\ \A i \in Issue : VerdictServed(i)

-----------------------------------------------------------------------------

(* The parts of the state. *)
LEMMA VerdictStateIs ==
    ASSUME V!Parameters, VerdictInv
    PROVE  /\ issue \in Inventory /\ inv \in Inventory /\ refreshVerdicts \in BOOLEAN
           /\ loop.at \in {"start", "read", "publish"} /\ loop.all \in BOOLEAN /\ loop.inv \in Inventory
           /\ queue \in Seq(Issue) /\ Single(queue) /\ Members(queue) \subseteq Issue
           /\ judge \in Judging \cup {V!Idle} /\ requests \in 0 .. MaxRequests
           /\ MaxBasis \in Nat /\ MaxRequests \in Nat /\ V!None \notin JudgeRole
           /\ \A i \in Issue : /\ manual[i] \in JudgeRole \cup {V!None} /\ owed[i] \in OwedVerdict
                               /\ verdict[i] \in 0 .. MaxBasis /\ wanted[i] \in 0 .. MaxBasis
                               /\ inv[i].basis \in 0 .. MaxBasis /\ issue[i].basis \in 0 .. MaxBasis
                               /\ i \in Members(queue) <=> manual[i] # V!None
                               /\ VerdictServed(i)
BY DEF VerdictInv, VerdictTyped, ByHand, V!Parameters, Members, JudgeRole, Inventory

(* The same sets are finite, and of one size, in the instance. *)
LEMMA VerdictFiniteIs ==
    ASSUME NEW A
    PROVE  V!IsFiniteSet(A) = IsFiniteSet(A) /\ V!Cardinality(A) = Cardinality(A)
<1>1. V!IsFiniteSet(A) = IsFiniteSet(A)
  BY DEF V!IsFiniteSet, IsFiniteSet
<1>2. V!Cardinality(A) = Cardinality(A)
  BY DEF V!Cardinality, Cardinality
<1> QED BY <1>1, <1>2

(* The issues of a set in an order. *)
LEMMA IssuesAre ==
    ASSUME V!Parameters, NEW A \in SUBSET Issue, NEW q \in V!SetToSeqs(A)
    PROVE  q \in Seq(Issue) /\ Single(q) /\ Members(q) = A
<1>1. IsFiniteSet(A)
  BY VerdictFiniteIs, FS_Subset DEF V!Parameters
<1>2. q \in [1 .. Cardinality(A) -> A] /\ Single(q)
  BY VerdictFiniteIs DEF V!SetToSeqs, Single
<1> QED BY <1>1, <1>2, OrderIs

(* An issue comes to the front. *)
LEMMA ToFrontIs ==
    ASSUME V!Parameters, VerdictInv, NEW i \in Issue, V!ToFront(i)
    PROVE  /\ queue' \in Seq(Issue) /\ Single(queue')
           /\ Members(queue') = {i} \cup Members(queue)
<1>1. V!ToSet(queue) = Members(queue)
  BY DEF V!ToSet, Members
<1>2. PICK rest \in V!SetToSeqs(Members(queue) \ {i}) : queue' = <<i>> \o rest
  BY <1>1 DEF V!ToFront
<1>3. Members(queue) \ {i} \in SUBSET Issue
  BY VerdictStateIs
<1>4. rest \in Seq(Issue) /\ Single(rest) /\ Members(rest) = Members(queue) \ {i}
  BY <1>3, IssuesAre
<1>5. /\ <<i>> \o rest \in Seq(Issue) /\ Single(<<i>> \o rest)
      /\ Members(<<i>> \o rest) = {i} \cup Members(rest)
  BY <1>4, InFrontIs
<1> QED BY <1>2, <1>4, <1>5

-----------------------------------------------------------------------------

(* A person asks for a verdict. *)
LEMMA RequestVerdictKeeps ==
    ASSUME V!Parameters, VerdictInv, NEW i \in Issue, NEW role \in Role, V!RequestVerdict(i, role)
    PROVE  VerdictInv'
<1>1. /\ queue' \in Seq(Issue) /\ Single(queue') /\ Members(queue') = {i} \cup Members(queue)
      /\ manual' = [manual EXCEPT ![i] = role] /\ owed' = [owed EXCEPT ![i] = V!Owe(role)]
      /\ requests' \in 0 .. MaxRequests
      /\ UNCHANGED <<issue, loop, refreshVerdicts, inv, judge, verdict, wanted>>
  BY ToFrontIs, VerdictStateIs DEF V!RequestVerdict, V!Ask
<1>2. V!Owe(role) \in OwedVerdict /\ V!Owe(role).role = role /\ ~ V!Owe(role).started
  BY DEF V!Owe, OwedVerdict, JudgeRole
<1>3. role \in JudgeRole /\ role # V!None
  BY VerdictStateIs DEF JudgeRole
<1>4. /\ manual'[i] = role /\ owed'[i] = V!Owe(role)
      /\ \A k \in Issue : k # i => manual'[k] = manual[k] /\ owed'[k] = owed[k]
  BY <1>1 DEF VerdictInv, VerdictTyped
<1>5. VerdictTyped'
  BY <1>1, <1>2, <1>3 DEF VerdictInv, VerdictTyped
<1>6. ByHand'
  BY <1>1, <1>3, <1>4, VerdictStateIs DEF ByHand
<1>7. BasisGrows'
  BY <1>1 DEF VerdictInv, BasisGrows
<1>8. ASSUME NEW k \in Issue PROVE VerdictServed(k)'
  BY <1>1, <1>2, <1>4, VerdictStateIs DEF VerdictServed
<1> QED BY <1>5, <1>6, <1>7, <1>8 DEF VerdictInv

(* The loop starts, with what Refresh now asked for, and reads the inventory. *)
LEMMA LoopKeeps ==
    ASSUME V!Parameters, VerdictInv, V!RequestRefreshAll \/ V!StartRefresh \/ V!ReadInventory
    PROVE  VerdictInv'
<1>1. UNCHANGED <<issue, inv, queue, manual, judge, verdict, owed, wanted>> /\ requests' \in 0 .. MaxRequests
  BY VerdictStateIs DEF V!RequestRefreshAll, V!StartRefresh, V!ReadInventory, V!Ask
<1>2. loop' = loop \/ loop' = [loop EXCEPT !.at = "read", !.all = refreshVerdicts]
      \/ loop' = [loop EXCEPT !.at = "publish", !.inv = issue]
  BY DEF V!RequestRefreshAll, V!StartRefresh, V!ReadInventory
<1>3. /\ loop' \in [at : {"start", "read", "publish"}, all : BOOLEAN, inv : Inventory]
      /\ loop'.at = "publish" => loop'.inv = issue \/ (loop.at = "publish" /\ loop'.inv = loop.inv)
  BY <1>2 DEF VerdictInv, VerdictTyped
<1>4. refreshVerdicts' \in BOOLEAN
  BY VerdictStateIs DEF V!RequestRefreshAll, V!StartRefresh, V!ReadInventory
<1>5. VerdictTyped'
  BY <1>1, <1>3, <1>4 DEF VerdictInv, VerdictTyped
<1>6. ByHand'
  BY <1>1 DEF VerdictInv, ByHand
<1>7. BasisGrows'
  <2> SUFFICES ASSUME NEW i \in Issue
               PROVE  (loop.at = "publish" => /\ inv[i].basis <= loop.inv[i].basis
                                              /\ loop.inv[i].basis <= issue[i].basis)'
    BY <1>1 DEF VerdictInv, BasisGrows
  <2>1. inv[i].basis <= issue[i].basis /\ issue[i].basis <= issue[i].basis
    BY VerdictStateIs DEF VerdictInv, BasisGrows
  <2> QED BY <1>1, <1>3, <2>1 DEF VerdictInv, BasisGrows
<1>8. ASSUME NEW i \in Issue PROVE VerdictServed(i)'
  BY <1>1, VerdictStateIs DEF VerdictServed
<1> QED BY <1>5, <1>6, <1>7, <1>8 DEF VerdictInv

(* The facts of an issue change. *)
LEMMA IssueChangeKeeps ==
    ASSUME V!Parameters, VerdictInv, NEW i \in Issue, V!Change(i)
    PROVE  VerdictInv'
<1> DEFINE b == issue[i].basis + 1
<1>1. /\ UNCHANGED <<loop, refreshVerdicts, inv, queue, manual, judge, verdict, owed, wanted, requests>>
      /\ b \in 0 .. MaxBasis /\ issue[i].basis <= b
  BY VerdictStateIs DEF V!Change
<1>2. PICK listed \in BOOLEAN : issue' = [issue EXCEPT ![i] = [basis |-> b, listed |-> listed]]
  <2>1. CASE issue' = [issue EXCEPT ![i] = [basis |-> b, listed |-> ~ issue[i].listed]]
    BY <2>1
  <2>2. CASE issue' = [issue EXCEPT ![i].basis = b]
    <3>1. [issue[i] EXCEPT !.basis = b] = [basis |-> b, listed |-> issue[i].listed]
          /\ issue[i].listed \in BOOLEAN
      BY VerdictStateIs DEF Inventory
    <3> QED BY <2>2, <3>1
  <2> QED BY <2>1, <2>2 DEF V!Change
<1> HIDE DEF b
<1>3. issue' \in Inventory /\ \A k \in Issue : issue[k].basis <= issue'[k].basis
  <2>1. issue' \in Inventory
    BY <1>1, <1>2, VerdictStateIs DEF Inventory
  <2>2. issue'[i].basis = b /\ \A k \in Issue : k # i => issue'[k] = issue[k]
    BY <1>2, VerdictStateIs DEF Inventory
  <2>3. \A k \in Issue : issue[k].basis <= issue[k].basis
    BY VerdictStateIs
  <2> QED BY <1>1, <2>1, <2>2, <2>3
<1>4. VerdictTyped'
  BY <1>1, <1>3 DEF VerdictInv, VerdictTyped
<1>5. ByHand'
  BY <1>1 DEF VerdictInv, ByHand
<1>6. BasisGrows'
  <2> SUFFICES ASSUME NEW k \in Issue
               PROVE  /\ inv[k].basis <= issue'[k].basis
                      /\ loop.at = "publish" => loop.inv[k].basis <= issue'[k].basis
    BY <1>1 DEF VerdictInv, BasisGrows
  <2>1. /\ inv[k].basis \in Int /\ issue[k].basis \in Int /\ issue'[k].basis \in Int
        /\ loop.inv[k].basis \in Int
    BY <1>3, VerdictStateIs DEF Inventory
  <2>2. issue[k].basis <= issue'[k].basis
    BY <1>3
  <2>3. inv[k].basis <= issue[k].basis /\ (loop.at = "publish" => loop.inv[k].basis <= issue[k].basis)
    BY DEF VerdictInv, BasisGrows
  <2> QED BY <2>1, <2>2, <2>3
<1>7. ASSUME NEW k \in Issue PROVE VerdictServed(k)'
  BY <1>1, VerdictStateIs DEF VerdictServed
<1> QED BY <1>4, <1>5, <1>6, <1>7 DEF VerdictInv

(* The inventory is published, with what Refresh now found outdated in it. *)
LEMMA VerdictPublishKeeps ==
    ASSUME V!Parameters, VerdictInv, V!Publish
    PROVE  VerdictInv'
<1> DEFINE outdated == IF loop.all THEN {i \in Issue : V!Outdated(i, inv')} ELSE {}
           new == {i \in outdated \ V!Queued : ~ V!Covered(i, inv')}
<1>1. PICK order \in V!SetToSeqs(new) :
        /\ queue' = queue \o order
        /\ manual' = [i \in Issue |-> IF i \in new THEN VerdictRole ELSE manual[i]]
        /\ owed' = [i \in Issue |-> IF i \in new THEN V!Owe(VerdictRole) ELSE owed[i]]
        /\ wanted' = [i \in Issue |-> IF i \in outdated THEN inv'[i].basis ELSE wanted[i]]
  BY DEF V!Publish
<1>2. /\ inv' \in {inv, loop.inv} /\ loop.at = "publish"
      /\ loop' = [at |-> "start", all |-> FALSE, inv |-> [i \in Issue |-> V!Unlisted]]
      /\ UNCHANGED <<issue, refreshVerdicts, judge, verdict, requests>>
  BY DEF V!Publish
<1>3. /\ outdated \subseteq Issue /\ new \subseteq outdated /\ \A i \in new : manual[i] = V!None
      /\ \A i \in outdated \ new : manual[i] # V!None \/ V!Covered(i, inv')
  BY DEF V!Queued
<1> HIDE DEF outdated, new
<1>4. order \in Seq(Issue) /\ Single(order) /\ Members(order) = new
  BY <1>3, IssuesAre
<1>5. Members(queue) \cap Members(order) = {}
  BY <1>3, <1>4, VerdictStateIs
<1>6. /\ queue' \in Seq(Issue) /\ Single(queue') /\ Members(queue') = Members(queue) \cup new
  BY <1>1, <1>4, <1>5, ConcatIs, VerdictStateIs
<1>7. inv' \in Inventory /\ V!Unlisted \in [basis : 0 .. MaxBasis, listed : BOOLEAN]
      /\ loop' \in [at : {"start", "read", "publish"}, all : BOOLEAN, inv : Inventory]
      /\ loop'.at = "start"
  <2>1. V!Unlisted \in [basis : 0 .. MaxBasis, listed : BOOLEAN]
    BY VerdictStateIs DEF V!Unlisted
  <2> QED BY <1>2, <2>1, VerdictStateIs DEF Inventory
<1>8. ASSUME NEW i \in Issue
      PROVE  /\ wanted'[i] \in 0 .. MaxBasis /\ wanted'[i] <= inv'[i].basis
             /\ inv'[i].basis <= issue[i].basis
  <2>1. /\ wanted[i] \in 0 .. MaxBasis /\ inv[i].basis \in 0 .. MaxBasis
        /\ inv'[i].basis \in 0 .. MaxBasis
    BY <1>7, VerdictStateIs DEF Inventory
  <2>2. /\ wanted[i] <= inv[i].basis /\ inv[i].basis <= issue[i].basis
        /\ inv[i].basis <= loop.inv[i].basis /\ loop.inv[i].basis <= issue[i].basis
    BY <1>2 DEF VerdictInv, BasisGrows
  <2>3. inv[i].basis <= inv'[i].basis /\ inv'[i].basis <= issue[i].basis
    BY <1>2, <2>1, <2>2
  <2>4. wanted'[i] = IF i \in outdated THEN inv'[i].basis ELSE wanted[i]
    BY <1>1
  <2> QED BY <2>1, <2>2, <2>3, <2>4
<1>9. V!Owe(VerdictRole) \in OwedVerdict /\ V!Owe(VerdictRole).role = VerdictRole
      /\ ~ V!Owe(VerdictRole).started /\ VerdictRole \in JudgeRole /\ VerdictRole # V!None
  BY VerdictStateIs DEF V!Owe, OwedVerdict, JudgeRole
<1>10. VerdictTyped'
  <2>1. wanted' \in [Issue -> 0 .. MaxBasis]
    <3>1. \A i \in Issue : wanted'[i] = IF i \in outdated THEN inv'[i].basis ELSE wanted[i]
      BY <1>1
    <3> QED BY <1>1, <1>8, <3>1
  <2>2. manual' \in [Issue -> JudgeRole \cup {V!None}] /\ owed' \in [Issue -> OwedVerdict]
    BY <1>1, <1>9, VerdictStateIs
  <2> QED BY <1>2, <1>6, <1>7, <2>1, <2>2 DEF VerdictInv, VerdictTyped
<1>11. ByHand'
  BY <1>1, <1>6, <1>9, VerdictStateIs DEF ByHand
<1>12. BasisGrows'
  BY <1>2, <1>7, <1>8 DEF BasisGrows
<1>13. ASSUME NEW i \in Issue PROVE VerdictServed(i)'
  <2>1. VerdictServed(i) /\ (manual[i] # V!None => i \in Members(queue))
    BY VerdictStateIs
  <2>2. CASE i \in new
    BY <1>1, <1>6, <1>9, <2>2 DEF VerdictServed
  <2>3. CASE i \notin new
    <3>1. manual'[i] = manual[i] /\ owed'[i] = owed[i] /\ UNCHANGED judge
      BY <1>1, <1>2, <2>3
    <3>2. wanted'[i] # 0 => i \in Members(queue') \/ (judge.judging = i /\ judge.basis >= wanted'[i])
      <4>1. CASE i \in outdated
        <5>1. wanted'[i] = inv'[i].basis /\ inv'[i].basis \in Int
          BY <1>1, <1>7, <4>1 DEF Inventory
        <5> QED BY <1>3, <1>6, <2>1, <2>3, <4>1, <5>1 DEF V!Covered
      <4>2. CASE i \notin outdated
        BY <1>1, <1>6, <2>1, <4>2 DEF VerdictServed
      <4> QED BY <4>1, <4>2
    <3> QED BY <2>1, <3>1, <3>2 DEF VerdictServed
  <2> QED BY <2>2, <2>3
<1> QED BY <1>10, <1>11, <1>12, <1>13 DEF VerdictInv

(* The worker takes the queue's head. *)
LEMMA JudgeQueuedKeeps ==
    ASSUME V!Parameters, VerdictInv, V!JudgeQueued
    PROVE  VerdictInv'
<1> DEFINE i == Head(queue)
           o == IF inv[i].listed THEN [owed[i] EXCEPT !.started = owed[i].role # V!None] ELSE V!NotOwed
           w == IF inv[i].listed THEN wanted[i] ELSE 0
           n == [judging |-> i, basis |-> inv[i].basis, role |-> manual[i], byHand |-> TRUE]
<1>1. /\ judge = V!Idle /\ queue # <<>> /\ queue' = Tail(queue)
      /\ judge' = IF inv[i].listed THEN n ELSE V!Idle
      /\ manual' = [manual EXCEPT ![i] = V!None]
      /\ UNCHANGED <<issue, loop, refreshVerdicts, inv, verdict, requests>>
  BY DEF V!JudgeQueued, V!Pick
<1>2. /\ queue' \in Seq(Issue) /\ Single(queue') /\ i \in Issue /\ i \in Members(queue)
      /\ Members(queue') = Members(queue) \ {i}
  BY <1>1, TailIs, VerdictStateIs
<1>3. owed' = [owed EXCEPT ![i] = o] /\ wanted' = [wanted EXCEPT ![i] = w]
  BY <1>2 DEF V!JudgeQueued, VerdictInv, VerdictTyped
<1> HIDE DEF i
<1>4. /\ manual[i] # V!None /\ manual[i] \in JudgeRole /\ owed[i] \in OwedVerdict
      /\ wanted[i] \in 0 .. MaxBasis /\ inv[i].basis \in 0 .. MaxBasis
      /\ wanted[i] <= inv[i].basis /\ VerdictServed(i)
  BY <1>2, VerdictStateIs DEF VerdictInv, BasisGrows
<1>5. n \in Judging /\ n.judging = i /\ n.byHand /\ n.role = manual[i] /\ n.basis = inv[i].basis
  BY <1>2, <1>4 DEF Judging
<1>6. /\ o \in OwedVerdict /\ w \in 0 .. MaxBasis
      /\ inv[i].listed => o.role = owed[i].role /\ o.started = (owed[i].role # V!None) /\ w = wanted[i]
      /\ ~ inv[i].listed => o.role = V!None /\ ~ o.started /\ w = 0
  <2>1. CASE inv[i].listed
    <3>1. o = [owed[i] EXCEPT !.started = owed[i].role # V!None] /\ w = wanted[i]
      BY <2>1
    <3> HIDE DEF o, w
    <3>2. o \in OwedVerdict /\ o.role = owed[i].role /\ o.started = (owed[i].role # V!None)
      BY <1>4, <3>1 DEF OwedVerdict
    <3> QED BY <1>4, <2>1, <3>1, <3>2
  <2>2. CASE ~ inv[i].listed
    <3>1. o = V!NotOwed /\ w = 0
      BY <2>2
    <3> HIDE DEF o, w
    <3>2. o \in OwedVerdict /\ o.role = V!None /\ ~ o.started /\ 0 \in 0 .. MaxBasis
      BY <3>1, VerdictStateIs DEF OwedVerdict, V!NotOwed
    <3> QED BY <2>2, <3>1, <3>2
  <2> QED BY <2>1, <2>2
<1> HIDE DEF n, o, w
<1>7. \A k \in Issue : ~ owed[k].started /\ (wanted[k] # 0 => k \in Members(queue))
  <2>1. ~ judge.byHand /\ judge.basis = 0
    BY <1>1 DEF V!Idle
  <2>2. \A k \in Issue : VerdictServed(k) /\ wanted[k] \in 0 .. MaxBasis
    BY VerdictStateIs
  <2>3. \A x \in 0 .. MaxBasis : 0 >= x => x = 0
    OBVIOUS
  <2> QED BY <2>1, <2>2, <2>3 DEF VerdictServed
<1>8. /\ manual'[i] = V!None /\ owed'[i] = o /\ wanted'[i] = w
      /\ \A k \in Issue : k # i => manual'[k] = manual[k] /\ owed'[k] = owed[k] /\ wanted'[k] = wanted[k]
  BY <1>1, <1>2, <1>3 DEF VerdictInv, VerdictTyped
<1>9. VerdictTyped'
  BY <1>1, <1>2, <1>3, <1>5, <1>6 DEF VerdictInv, VerdictTyped
<1>10. ByHand'
  BY <1>2, <1>8, VerdictStateIs DEF ByHand
<1>11. BasisGrows'
  <2>1. \A k \in Issue : wanted'[k] <= inv[k].basis
    BY <1>4, <1>6, <1>8 DEF VerdictInv, BasisGrows
  <2> QED BY <1>1, <2>1 DEF VerdictInv, BasisGrows
<1>12. ASSUME NEW k \in Issue PROVE VerdictServed(k)'
  <2>1. CASE k = i
    <3>1. owed[i].role # V!None => owed[i].role = manual[i]
      BY <1>2, <1>4, <1>7 DEF VerdictServed
    <3>2. CASE inv[i].listed
      <4>1. judge' = n
        BY <1>1, <3>2
      <4> QED BY <1>4, <1>5, <1>6, <1>8, <2>1, <3>1, <3>2, <4>1 DEF VerdictServed
    <3>3. CASE ~ inv[i].listed
      BY <1>6, <1>8, <2>1, <3>3 DEF VerdictServed
    <3> QED BY <3>2, <3>3
  <2>2. CASE k # i
    <3>1. VerdictServed(k) /\ manual'[k] = manual[k] /\ owed'[k] = owed[k] /\ wanted'[k] = wanted[k]
      BY <1>8, <2>2, VerdictStateIs
    <3> QED BY <1>2, <1>7, <2>2, <3>1 DEF VerdictServed
  <2> QED BY <2>1, <2>2
<1> QED BY <1>9, <1>10, <1>11, <1>12 DEF VerdictInv

(* The worker takes an issue that nobody asked for: nothing is owed then. *)
LEMMA JudgeAutomaticKeeps ==
    ASSUME V!Parameters, VerdictInv, V!JudgeAutomatic
    PROVE  VerdictInv'
<1>1. PICK i \in Issue : inv[i].listed /\ V!Pick(i, VerdictRole, FALSE)
  BY DEF V!JudgeAutomatic
<1>2. /\ judge = V!Idle /\ queue = <<>>
      /\ UNCHANGED <<issue, loop, refreshVerdicts, inv, queue, manual, verdict, owed, wanted, requests>>
  BY DEF V!JudgeAutomatic
<1>3. judge' \in Judging
  <2>1. judge' = [judging |-> i, basis |-> inv[i].basis, role |-> VerdictRole, byHand |-> FALSE]
    BY <1>1 DEF V!Pick
  <2> QED BY <2>1, VerdictStateIs DEF Judging, JudgeRole
<1>4. Members(queue) = {}
  BY <1>2 DEF Members
<1>5. \A k \in Issue : ~ owed[k].started /\ owed[k].role = V!None /\ wanted[k] = 0
  <2>1. ~ judge.byHand /\ judge.basis = 0
    BY <1>2 DEF V!Idle
  <2>2. \A k \in Issue : VerdictServed(k) /\ wanted[k] \in 0 .. MaxBasis /\ manual[k] = V!None
    BY <1>4, VerdictStateIs
  <2>3. \A x \in 0 .. MaxBasis : 0 >= x => x = 0
    OBVIOUS
  <2> QED BY <1>4, <2>1, <2>2, <2>3 DEF VerdictServed
<1>6. VerdictTyped'
  BY <1>2, <1>3 DEF VerdictInv, VerdictTyped
<1>7. ByHand' /\ BasisGrows'
  BY <1>2 DEF VerdictInv, ByHand, BasisGrows
<1>8. ASSUME NEW k \in Issue PROVE VerdictServed(k)'
  BY <1>2, <1>5 DEF VerdictServed
<1> QED BY <1>6, <1>7, <1>8 DEF VerdictInv

(* What a judgement leaves when it has ended: i was judged, o is owed and b *)
(* wanted for it.                                                           *)
LEMMA JudgementKeeps ==
    ASSUME V!Parameters, VerdictInv, judge \in Judging, judge' = V!Idle,
           queue' \in Seq(Issue), Single(queue'), Members(queue) \subseteq Members(queue'),
           NEW i \in Issue, i = judge.judging,
           NEW r \in JudgeRole \cup {V!None}, manual' = [manual EXCEPT ![i] = r],
           Members(queue') \subseteq {i} \cup Members(queue),
           i \in Members(queue') <=> r # V!None,
           NEW o \in OwedVerdict, owed' = [owed EXCEPT ![i] = o],
           ~ o.started, o.role # V!None => r = o.role,
           NEW w \in {0, wanted[i]}, wanted' = [wanted EXCEPT ![i] = w],
           w # 0 => i \in Members(queue'),
           verdict' \in [Issue -> 0 .. MaxBasis],
           UNCHANGED <<issue, loop, refreshVerdicts, inv, requests>>
    PROVE  VerdictInv'
<1>1. /\ manual'[i] = r /\ owed'[i] = o /\ wanted'[i] = w
      /\ \A k \in Issue : k # i => manual'[k] = manual[k] /\ owed'[k] = owed[k] /\ wanted'[k] = wanted[k]
  BY DEF VerdictInv, VerdictTyped
<1>2. w \in 0 .. MaxBasis /\ w <= inv[i].basis
  BY VerdictStateIs DEF VerdictInv, BasisGrows
<1>3. VerdictTyped'
  BY <1>2 DEF VerdictInv, VerdictTyped
<1>4. ByHand'
  BY <1>1, VerdictStateIs DEF ByHand
<1>5. BasisGrows'
  BY <1>1, <1>2 DEF VerdictInv, BasisGrows
<1>6. ASSUME NEW k \in Issue PROVE VerdictServed(k)'
  <2>1. CASE k = i
    BY <1>1, <2>1 DEF VerdictServed
  <2>2. CASE k # i
    <3>1. VerdictServed(k) /\ judge.judging # k
      BY <2>2, VerdictStateIs
    <3> QED BY <1>1, <2>2, <3>1 DEF VerdictServed
  <2> QED BY <2>1, <2>2
<1> QED BY <1>3, <1>4, <1>5, <1>6 DEF VerdictInv

(* What is known of the issue that is judged. *)
LEMMA JudgedIs ==
    ASSUME V!Parameters, VerdictInv, judge # V!Idle
    PROVE  LET i == judge.judging IN
           /\ judge \in Judging /\ i \in Issue /\ judge.basis \in 0 .. MaxBasis /\ judge.role \in JudgeRole
           /\ judge.byHand \in BOOLEAN
           /\ VerdictServed(i) /\ owed[i] \in OwedVerdict /\ wanted[i] \in 0 .. MaxBasis
           /\ manual[i] \in JudgeRole \cup {V!None} /\ (i \in Members(queue) <=> manual[i] # V!None)
           /\ ~ wanted[i] <= judge.basis => i \in Members(queue)
<1> DEFINE i == judge.judging
<1>1. /\ judge \in Judging /\ i \in Issue /\ judge.basis \in 0 .. MaxBasis /\ judge.role \in JudgeRole
      /\ judge.byHand \in BOOLEAN
  BY VerdictStateIs DEF Judging
<1> HIDE DEF i
<1>2. /\ VerdictServed(i) /\ owed[i] \in OwedVerdict /\ wanted[i] \in 0 .. MaxBasis
      /\ manual[i] \in JudgeRole \cup {V!None} /\ (i \in Members(queue) <=> manual[i] # V!None)
  BY <1>1, VerdictStateIs
<1>3. ~ wanted[i] <= judge.basis => wanted[i] # 0 /\ ~ judge.basis >= wanted[i]
  BY <1>1, <1>2, VerdictStateIs
<1> QED BY <1>1, <1>2, <1>3 DEF i, VerdictServed

(* A judgement has an outcome. *)
LEMMA JudgedKeeps ==
    ASSUME V!Parameters, VerdictInv, V!Judged
    PROVE  VerdictInv'
<1> DEFINE i == judge.judging
           o == IF owed[i].started THEN V!NotOwed ELSE owed[i]
           w == IF wanted[i] <= judge.basis THEN 0 ELSE wanted[i]
<1>1. /\ judge # V!Idle /\ judge' = V!Idle
      /\ UNCHANGED <<issue, loop, refreshVerdicts, inv, queue, manual, requests>>
      /\ verdict' \in {verdict, [verdict EXCEPT ![i] = judge.basis]}
  BY DEF V!Judged
<1>2. /\ judge \in Judging /\ i \in Issue /\ judge.basis \in 0 .. MaxBasis
      /\ VerdictServed(i) /\ owed[i] \in OwedVerdict /\ wanted[i] \in 0 .. MaxBasis
      /\ manual[i] \in JudgeRole \cup {V!None} /\ (i \in Members(queue) <=> manual[i] # V!None)
      /\ ~ wanted[i] <= judge.basis => i \in Members(queue)
  BY <1>1, JudgedIs
<1>3. /\ owed' = [owed EXCEPT ![i] = o] /\ wanted' = [wanted EXCEPT ![i] = w]
      /\ manual' = [manual EXCEPT ![i] = manual[i]] /\ verdict' \in [Issue -> 0 .. MaxBasis]
  BY <1>1, <1>2 DEF V!Judged, VerdictInv, VerdictTyped
<1> HIDE DEF i
<1>4. /\ o \in OwedVerdict /\ ~ o.started /\ w \in {0, wanted[i]}
      /\ o.role # V!None => manual[i] = o.role
      /\ w # 0 => i \in Members(queue)
  BY <1>2 DEF OwedVerdict, V!NotOwed, VerdictServed
<1> HIDE DEF o, w
<1>5. queue' \in Seq(Issue) /\ Single(queue') /\ Members(queue') = Members(queue)
  BY <1>1, VerdictStateIs
<1> QED BY <1>1, <1>2, <1>3, <1>4, <1>5, JudgementKeeps DEF i

(* A judgement has no budget. *)
LEMMA NoBudgetKeeps ==
    ASSUME V!Parameters, VerdictInv, V!NoBudget
    PROVE  VerdictInv'
<1> DEFINE i == judge.judging
           o == [owed[i] EXCEPT !.started = FALSE]
           w == IF judge.byHand \/ ~ wanted[i] <= judge.basis THEN wanted[i] ELSE 0
           r == IF judge.byHand /\ manual[i] = V!None THEN judge.role ELSE manual[i]
<1>1. /\ judge # V!Idle /\ judge' = V!Idle
      /\ UNCHANGED <<issue, loop, refreshVerdicts, inv, verdict, requests>>
  BY DEF V!NoBudget
<1>2. /\ judge \in Judging /\ i \in Issue /\ judge.basis \in 0 .. MaxBasis /\ judge.role \in JudgeRole
      /\ judge.byHand \in BOOLEAN
      /\ VerdictServed(i) /\ owed[i] \in OwedVerdict /\ wanted[i] \in 0 .. MaxBasis
      /\ manual[i] \in JudgeRole \cup {V!None} /\ (i \in Members(queue) <=> manual[i] # V!None)
      /\ ~ wanted[i] <= judge.basis => i \in Members(queue)
  BY <1>1, JudgedIs
<1>3. /\ owed' = [owed EXCEPT ![i] = o] /\ wanted' = [wanted EXCEPT ![i] = w]
      /\ manual' = [manual EXCEPT ![i] = r]
  <2>1. owed' = [owed EXCEPT ![i] = o]
    BY <1>2 DEF V!NoBudget, VerdictInv, VerdictTyped
  <2>2. wanted' = [wanted EXCEPT ![i] = w]
    BY <1>2 DEF V!NoBudget, VerdictInv, VerdictTyped
  <2>3. manual' = [manual EXCEPT ![i] = r]
    BY <1>2 DEF V!NoBudget, V!PutBack, VerdictInv, VerdictTyped
  <2> QED BY <2>1, <2>2, <2>3
<1>4. /\ queue' \in Seq(Issue) /\ Single(queue')
      /\ Members(queue') = IF judge.byHand THEN {i} \cup Members(queue) ELSE Members(queue)
  <2>1. CASE judge.byHand /\ manual[i] = V!None
    <3>1. V!ToFront(i)
      BY <2>1 DEF V!NoBudget, V!PutBack
    <3> HIDE DEF i
    <3> QED BY <1>2, <2>1, <3>1, ToFrontIs
  <2>2. CASE ~ (judge.byHand /\ manual[i] = V!None)
    <3>1. UNCHANGED queue
      BY <2>2 DEF V!NoBudget, V!PutBack
    <3> QED BY <1>2, <2>2, <3>1, VerdictStateIs
  <2> QED BY <2>1, <2>2
<1>5. verdict' \in [Issue -> 0 .. MaxBasis] /\ V!None \notin JudgeRole
  BY <1>1, VerdictStateIs DEF VerdictInv, VerdictTyped
<1> HIDE DEF i
<1>6. /\ o \in OwedVerdict /\ ~ o.started /\ o.role = owed[i].role
  BY <1>2 DEF OwedVerdict
<1>7. /\ r \in JudgeRole \cup {V!None} /\ (i \in Members(queue') <=> r # V!None)
      /\ w \in {0, wanted[i]} /\ (w # 0 => i \in Members(queue'))
  BY <1>2, <1>4, <1>5
<1>8. o.role # V!None => r = o.role
  BY <1>2, <1>5, <1>6 DEF VerdictServed, i
<1> HIDE DEF o, w, r
<1> QED BY <1>1, <1>2, <1>3, <1>4, <1>5, <1>6, <1>7, <1>8, JudgementKeeps DEF i

-----------------------------------------------------------------------------

(* The invariant holds at first. *)
LEMMA VerdictInvInit == ASSUME V!Parameters, V!Init PROVE VerdictInv
<1>1. queue = <<>> /\ <<>> \in Seq(Issue) /\ DOMAIN <<>> = {}
  BY DEF V!Init
<1>2. Single(queue) /\ Members(queue) = {}
  BY <1>1 DEF Single, Members
<1>3. /\ V!Unlisted \in [basis : 0 .. MaxBasis, listed : BOOLEAN] /\ V!Unlisted.basis = 0
      /\ V!NotOwed \in OwedVerdict /\ V!NotOwed.role = V!None /\ ~ V!NotOwed.started
      /\ 0 \in 0 .. MaxBasis /\ 1 \in 0 .. MaxBasis /\ 0 \in 0 .. MaxRequests
  BY DEF V!Unlisted, V!NotOwed, OwedVerdict, V!Parameters
<1>4. issue \in Inventory /\ inv \in Inventory /\ \A i \in Issue : issue[i].basis = 1 /\ inv[i] = V!Unlisted
  BY <1>3 DEF V!Init, Inventory
<1>5. /\ loop \in [at : {"start", "read", "publish"}, all : BOOLEAN, inv : Inventory]
      /\ loop.at = "start"
  BY <1>3 DEF V!Init, Inventory
<1>6. VerdictTyped
  BY <1>1, <1>3, <1>4, <1>5 DEF VerdictTyped, V!Init
<1>7. ByHand
  BY <1>2 DEF ByHand, V!Init
<1>8. BasisGrows
  BY <1>3, <1>4, <1>5 DEF BasisGrows, V!Init
<1>9. ASSUME NEW i \in Issue PROVE VerdictServed(i)
  BY <1>3 DEF VerdictServed, V!Init
<1> QED BY <1>6, <1>7, <1>8, <1>9 DEF VerdictInv

(* A step of nobody. *)
LEMMA VerdictStutters == ASSUME VerdictInv, UNCHANGED V!vars PROVE VerdictInv'
BY DEF V!vars, VerdictInv, VerdictTyped, ByHand, BasisGrows, VerdictServed

(* Every step keeps it. *)
LEMMA VerdictInvNext == ASSUME V!Parameters, VerdictInv, [V!Next]_V!vars PROVE VerdictInv'
<1>1. CASE V!RequestRefreshAll \/ V!StartRefresh \/ V!ReadInventory
  BY <1>1, LoopKeeps
<1>2. CASE V!Publish
  BY <1>2, VerdictPublishKeeps
<1>3. CASE V!JudgeQueued \/ V!JudgeAutomatic
  BY <1>3, JudgeQueuedKeeps, JudgeAutomaticKeeps
<1>4. CASE V!Judged \/ V!NoBudget
  BY <1>4, JudgedKeeps, NoBudgetKeeps
<1>5. CASE \E i \in Issue : V!Change(i)
  BY <1>5, IssueChangeKeeps
<1>6. CASE \E i \in Issue, role \in Role : V!RequestVerdict(i, role)
  BY <1>6, RequestVerdictKeeps
<1>7. CASE UNCHANGED V!vars
  BY <1>7, VerdictStutters
<1> QED BY <1>1, <1>2, <1>3, <1>4, <1>5, <1>6, <1>7 DEF V!Next

(* The invariant always holds. *)
LEMMA VerdictInvariance == ASSUME V!Parameters PROVE V!Spec => []VerdictInv
<1>1. V!Init => VerdictInv
  BY VerdictInvInit
<1>2. VerdictInv /\ [V!Next]_V!vars => VerdictInv'
  BY VerdictInvNext
<1> QED BY <1>1, <1>2, PTL DEF V!Spec

(* Every part of the state has its type, for any issues, roles and requests. *)
THEOREM VerdictTypeCorrect ==
    ASSUME V!Parameters
    PROVE  V!Spec => []V!TypeOK
<1>1. VerdictInv => V!TypeOK
  <2> SUFFICES ASSUME VerdictInv PROVE V!TypeOK
    OBVIOUS
  <2>1. judge \in [judging : Issue \cup {V!None}, basis : 0 .. MaxBasis,
                   role : Role \cup {VerdictRole, V!None}, byHand : BOOLEAN]
    <3>1. judge \in Judging \/ judge = V!Idle
      BY VerdictStateIs
    <3>2. CASE judge \in Judging
      BY <3>2 DEF Judging, JudgeRole
    <3>3. CASE judge = V!Idle
      <4>1. 0 \in 0 .. MaxBasis
        BY VerdictStateIs
      <4> QED BY <3>3, <4>1 DEF V!Idle
    <3> QED BY <3>1, <3>2, <3>3
  <2>2. manual \in [Issue -> Role \cup {VerdictRole, V!None}]
    BY DEF VerdictInv, VerdictTyped, JudgeRole
  <2> QED BY <2>1, <2>2 DEF VerdictInv, VerdictTyped, V!TypeOK
<1> QED BY <1>1, VerdictInvariance, PTL

(* What a person asked for is judged with the role asked for last, in a        *)
(* judgement that started later, and what Refresh now found without a verdict  *)
(* on a basis that is no older; no issue is queued twice, or unasked           *)
(* (queueVerdictLocked, queueOutdatedLocked, judgeNext).                       *)
THEOREM VerdictsAreServed ==
    ASSUME V!Parameters
    PROVE  V!Spec => []V!RequestsAreKept
<1>1. VerdictInv => V!RequestsAreKept
  <2> SUFFICES ASSUME VerdictInv PROVE V!RequestsAreKept
    OBVIOUS
  <2> SUFFICES ASSUME NEW i \in Issue
               PROVE  /\ owed[i].role # V!None =>
                            IF owed[i].started THEN judge.judging = i /\ judge.role = owed[i].role
                            ELSE manual[i] = owed[i].role /\ i \in V!ToSet(queue)
                      /\ wanted[i] # 0 => \/ i \in V!ToSet(queue)
                                          \/ judge.judging = i /\ judge.basis >= wanted[i]
                      /\ V!Cardinality({n \in DOMAIN queue : queue[n] = i})
                            = IF manual[i] = V!None THEN 0 ELSE 1
    BY DEF V!RequestsAreKept
  <2>1. V!ToSet(queue) = Members(queue)
    BY DEF V!ToSet, Members
  <2>2. VerdictServed(i) /\ Single(queue) /\ (i \in Members(queue) <=> manual[i] # V!None)
    BY VerdictStateIs
  <2>3. V!Cardinality({n \in DOMAIN queue : queue[n] = i}) = IF i \in Members(queue) THEN 1 ELSE 0
    BY <2>2, CountIs, VerdictFiniteIs
  <2> QED BY <2>1, <2>2, <2>3 DEF VerdictServed
<1> QED BY <1>1, VerdictInvariance, PTL

=============================================================================
