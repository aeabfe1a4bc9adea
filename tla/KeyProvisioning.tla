----------------------------- MODULE KeyProvisioning -----------------------------
(***************************************************************************)
(* Two commands that get a new key registered elsewhere and store it in a  *)
(* file that must not exist yet: `gh-app register'                         *)
(* (src/tools/gh-app/register.go), whose callbacks run in a server's       *)
(* goroutines beside the command that waits for them, and                  *)
(* `forgejo-deploy-key' (src/tools/forgejo-deploy-key), which probes until *)
(* a person has registered the key.  Both store it with                    *)
(* src/lib/sopsstore, and here both were given the same file.              *)
(***************************************************************************)
EXTENDS Naturals

CONSTANT Callback   \* the callbacks that reach the server, codes of one form

VARIABLES
    file,   \* the store's file: whose it is and whether it is whole
    reg,    \* gh-app register: where it is and what it tells at its end
    call,   \* each callback's goroutine
    mutex,  \* registrar.mu: the goroutine that holds it, or None
    dk,     \* forgejo-deploy-key
    key     \* how the deploy key is registered at Forgejo

vars == <<file, reg, call, mutex, dk, key>>

None == "none"
\* No callback is None.
Parameters == None \notin Callback
NoFile == [of |-> None, whole |-> FALSE]

Init ==
    /\ file = NoFile
    /\ reg = [at |-> "check", finished |-> FALSE, done |-> None, interrupted |-> FALSE, told |-> None]
    /\ call = [c \in Callback |-> [at |-> "new", converted |-> FALSE]]
    /\ mutex = None
    /\ dk = [at |-> "check", over |-> FALSE, told |-> None]
    /\ key = "none"

-----------------------------------------------------------------------------
(* sopsstore.File.Save: encrypt, create the file and write it *)

\* O_EXCL: a file that exists by now is not touched.
Create(by, created, failed) ==
    \/ file = NoFile /\ file' = [of |-> by, whole |-> FALSE] /\ created
    \/ UNCHANGED file /\ failed

\* The write or the close fails, or the whole is written.  Nothing removes
\* what a failed write left.
WriteFile(by, written, failed) ==
    \/ file' = [file EXCEPT !.whole = file.of = by] /\ written
    \/ UNCHANGED file /\ failed

-----------------------------------------------------------------------------
(* gh-app register *)

Call(c, from, to) == call[c].at = from /\ call' = [call EXCEPT ![c].at = to]
Serving == reg.at \notin {"check", "over"}

RegCheck ==
    /\ reg.at = "check"
    /\ reg' = IF file = NoFile THEN [reg EXCEPT !.at = "select"]
              ELSE [reg EXCEPT !.at = "over", !.told = "refused"]
    /\ UNCHANGED <<file, call, mutex, dk, key>>

\* callback: under the mutex only the first one goes on.
Arrive(c) ==
    /\ Serving /\ Call(c, "new", "lock")
    /\ UNCHANGED <<file, reg, mutex, dk, key>>

Enter(c) ==
    /\ Serving /\ call[c].at = "lock" /\ mutex = None
    /\ IF reg.finished THEN Call(c, "lock", "over") /\ UNCHANGED <<reg, mutex>>
       ELSE Call(c, "lock", "convert") /\ reg' = [reg EXCEPT !.finished = TRUE] /\ mutex' = c
    /\ UNCHANGED <<file, dk, key>>

\* The result is sent, done having room for one, and the mutex is dropped.
Send(c, result) ==
    /\ call' = [call EXCEPT ![c].at = "over"]
    /\ reg' = [reg EXCEPT !.done = result] /\ mutex' = None

\* The one-time code is used up; the response may be lost, be unusable, or an
\* interrupt may end it.
Convert(c) ==
    /\ Serving /\ call[c].at = "convert"
    /\ \/ call' = [call EXCEPT ![c] = [at |-> "encrypt", converted |-> TRUE]] /\ UNCHANGED <<reg, mutex>>
       \/ /\ call' = [call EXCEPT ![c] = [at |-> "over", converted |-> TRUE]]
          /\ reg' = [reg EXCEPT !.done = "failed"] /\ mutex' = None
    /\ UNCHANGED <<file, dk, key>>

RegEncrypt(c) ==
    /\ Serving /\ call[c].at = "encrypt"
    /\ \/ Call(c, "encrypt", "create") /\ UNCHANGED <<reg, mutex>>
       \/ Send(c, "failed")
    /\ UNCHANGED <<file, dk, key>>
RegCreate(c) ==
    /\ Serving /\ call[c].at = "create"
    /\ Create("reg", Call(c, "create", "write") /\ UNCHANGED <<reg, mutex>>, Send(c, "failed"))
    /\ UNCHANGED <<dk, key>>
RegWrite(c) ==
    /\ Serving /\ call[c].at = "write"
    /\ WriteFile("reg", Send(c, "stored"), Send(c, "failed"))
    /\ UNCHANGED <<dk, key>>

\* register waits for a result, its timer or an interrupt, whichever it picks.
Result ==
    /\ reg.at = "select" /\ reg.done # None
    /\ reg' = [reg EXCEPT !.at = "shutdown", !.told = reg.done, !.done = None]
    /\ UNCHANGED <<file, call, mutex, dk, key>>
Expire ==
    /\ reg.at = "select"
    /\ \E interrupted \in BOOLEAN : reg' = [reg EXCEPT !.at = "expire", !.interrupted = interrupted]
    /\ UNCHANGED <<file, call, mutex, dk, key>>

\* Mutant: it does not wait for a callback that holds the mutex.
RefuseLaterAtOnce ==
    /\ reg.at = "expire"
    /\ reg' = [reg EXCEPT !.at = "read", !.finished = TRUE]
    /\ UNCHANGED <<file, call, mutex, dk, key>>

\* It lets a callback in progress finish, and refuses later ones ...
RefuseLater ==
    /\ reg.at = "expire" /\ mutex = None
    /\ reg' = [reg EXCEPT !.at = "read", !.finished = TRUE]
    /\ UNCHANGED <<file, call, mutex, dk, key>>

\* ... then takes the result that one sent, if any.
ReadDone ==
    /\ reg.at = "read"
    /\ reg' = [reg EXCEPT !.at = "shutdown", !.done = None,
                          !.told = IF reg.done = None THEN "nothing" ELSE reg.done]
    /\ UNCHANGED <<file, call, mutex, dk, key>>

\* The server stops; after an interrupt a second one ends it anywhere.
Shutdown ==
    /\ \/ reg.at = "shutdown"
       \/ reg.at # "over" /\ reg.interrupted
    /\ reg' = [reg EXCEPT !.at = "over"]
    /\ UNCHANGED <<file, call, mutex, dk, key>>

-----------------------------------------------------------------------------
(* forgejo-deploy-key *)

DKGoto(from, to) == dk.at = from /\ dk' = [dk EXCEPT !.at = to]
DKEnd(told) == dk' = [dk EXCEPT !.at = "over", !.told = told]

DKCheck ==
    /\ dk.at = "check"
    /\ IF file = NoFile THEN DKGoto("check", "greet") ELSE DKEnd("refused")
    /\ UNCHANGED <<file, reg, call, mutex, key>>

\* A probe has two steps: ssh's greeting tells whose key it is, then
\* git-receive-pack whether it may push.  The first probe must find the new
\* key refused; it is left out, as the key is not known to anyone yet.
Greet ==
    /\ dk.at = "greet"
    /\ \/ key \in {"read", "write"} /\ DKGoto("greet", "push")
       \/ key = "user" /\ DKEnd("nothing")
       \/ DKGoto("greet", "pause")
    /\ UNCHANGED <<file, reg, call, mutex, key>>
Push ==
    /\ dk.at = "push"
    /\ \/ key = "write" /\ dk' = [dk EXCEPT !.at = IF dk.over THEN "pause" ELSE "encrypt"]
       \/ DKGoto("push", "pause")
    /\ UNCHANGED <<file, reg, call, mutex, key>>

\* The wait ends: a probe that is running then counts for nothing.
WaitOver ==
    /\ dk.at \in {"greet", "push", "pause"} /\ ~ dk.over
    /\ dk' = [dk EXCEPT !.over = TRUE]
    /\ UNCHANGED <<file, reg, call, mutex, key>>
Pause ==
    /\ dk.at = "pause"
    /\ IF dk.over THEN DKEnd("nothing") ELSE DKGoto("pause", "greet")
    /\ UNCHANGED <<file, reg, call, mutex, key>>

DKEncrypt ==
    /\ dk.at = "encrypt" /\ (DKGoto("encrypt", "create") \/ DKEnd("failed"))
    /\ UNCHANGED <<file, reg, call, mutex, key>>
DKCreate ==
    /\ dk.at = "create" /\ Create("dk", DKGoto("create", "write"), DKEnd("failed"))
    /\ UNCHANGED <<reg, call, mutex, key>>
DKWrite ==
    /\ dk.at = "write" /\ WriteFile("dk", DKEnd("stored"), DKEnd("failed"))
    /\ UNCHANGED <<reg, call, mutex, key>>

\* A person adds the key, changes how or deletes it.
Person ==
    /\ dk.at \in {"greet", "push", "pause"} /\ key' \in {"none", "read", "write", "user"} \ {key}
    /\ UNCHANGED <<file, reg, call, mutex, dk>>

Next ==
    \/ RegCheck \/ Result \/ Expire \/ RefuseLater \/ ReadDone \/ Shutdown
    \/ \E c \in Callback : \/ Arrive(c) \/ Enter(c) \/ Convert(c)
                           \/ RegEncrypt(c) \/ RegCreate(c) \/ RegWrite(c)
    \/ DKCheck \/ Greet \/ Push \/ WaitOver \/ Pause \/ DKEncrypt \/ DKCreate \/ DKWrite \/ Person

Spec == Init /\ [][Next]_vars

-----------------------------------------------------------------------------
(* Properties *)

\* The type invariant.
TypeOK ==
    /\ file \in [of : {None, "reg", "dk"}, whole : BOOLEAN]
    /\ reg \in [at : {"check", "select", "expire", "read", "shutdown", "over"}, finished : BOOLEAN,
                interrupted : BOOLEAN, done : {None, "failed", "stored"},
                told : {None, "refused", "nothing", "failed", "stored"}]
    /\ call \in [Callback -> [at : {"new", "lock", "convert", "encrypt", "create", "write", "over"},
                              converted : BOOLEAN]]
    /\ mutex \in Callback \cup {None}
    /\ dk \in [at : {"check", "greet", "push", "pause", "encrypt", "create", "write", "over"},
               over : BOOLEAN, told : {None, "refused", "nothing", "failed", "stored"}]
    /\ key \in {"none", "read", "write", "user"}

\* What a command tells at its end is true, then and later: after "nothing was
\* stored" no code of the App was used and no key is stored, whatever callback
\* was in progress when the time ran out, and a key that is "stored" is in the
\* file, whole, and not another command's.
TellsTheTruth ==
    /\ reg.told = "nothing" => file.of # "reg" /\ \A c \in Callback : ~ call[c].converted
    /\ reg.told = "stored" => file = [of |-> "reg", whole |-> TRUE]
    /\ dk.told = "nothing" => file.of # "dk"
    /\ dk.told = "stored" => file = [of |-> "dk", whole |-> TRUE]
================================================================================
