-------------------------------- MODULE TokenCache --------------------------------
(***************************************************************************)
(* The cache of gh-app's installation token and repository list            *)
(* (src/tools/gh-app/token.go): a file that concurrent invocations read    *)
(* without a lock and replace under a flock, each lookup asking whether    *)
(* one repository is installed.                                            *)
(*                                                                         *)
(* Two tries of a listing are never at the same instant, as each is a call *)
(* to GitHub under the lock.  A token that has a unit of time left serves  *)
(* on when no other can be had.  A list is whether it holds the repository *)
(* that is asked for.                                                      *)
(***************************************************************************)
EXTENDS Integers

CONSTANTS Invocation,   \* concurrent `gh-app' processes
          Life,         \* how long a token lives
          MinRemaining, \* minRemaining
          RelistInterval, \* relistInterval
          MaxTime       \* bound of the clock

VARIABLES
    now,
    github,  \* the installation, and whether it covers the repository
    cache,   \* the cache file, NoEntry when there is none
    lastTry, \* when a listing was tried last
    lock,    \* the invocation that holds the flock, or None
    proc     \* each invocation: where it is, its entry and its answer

vars == <<now, github, cache, lastTry, lock, proc>>

None == "none"

\* What the values are: times, and invocations that are not None.
Parameters == /\ Life \in Nat /\ MinRemaining \in Nat /\ RelistInterval \in Nat /\ MaxTime \in Nat
              /\ None \notin Invocation

Never == -1
\* listedAt and triedAt are Never for a list that was never made or tried.
NoEntry == [inst |-> 0, expires |-> 0, has |-> FALSE, listedAt |-> Never, triedAt |-> Never]

Init ==
    /\ now = 0
    /\ github = [inst |-> 1, has |-> FALSE]
    /\ cache = NoEntry
    /\ lock = None /\ lastTry = Never
    /\ proc = [i \in Invocation |-> [at |-> "start", entry |-> NoEntry, answer |-> None]]

At(i, step) == proc[i].at = step
Fresh(entry) == entry.inst # 0 /\ entry.expires - now > MinRemaining
Serves(entry) == entry.inst # 0 /\ entry.expires > now
\* listAttempt
Attempt(entry) == IF entry.triedAt > entry.listedAt THEN entry.triedAt ELSE entry.listedAt

Goto(i, step, entry) == proc' = [proc EXCEPT ![i].at = step, ![i].entry = entry]
\* An invocation is over: its lock goes with it.
Answer(i, answer) ==
    /\ proc' = [proc EXCEPT ![i] = [at |-> "over", entry |-> NoEntry, answer |-> answer]]
    /\ lock' = IF lock = i THEN None ELSE lock

\* notInstalled: only a confirmed list shows that.
NotInstalled(entry) == IF entry.listedAt = Never THEN "error" ELSE "no"

-----------------------------------------------------------------------------
(* token *)

\* The cached token, when it is fresh; otherwise the lock is wanted.
ReadToken(i) ==
    /\ At(i, "start")
    /\ IF Fresh(cache) THEN Goto(i, "look", cache) ELSE Goto(i, "lock", NoEntry)
    /\ UNCHANGED <<now, github, cache, lock, lastTry>>

\* Mutant: who has waited for the lock mints, whatever was minted meanwhile.
LockAndMint(i) ==
    /\ At(i, "lock") /\ lock = None /\ lock' = i
    /\ Goto(i, "mint", NoEntry)
    /\ UNCHANGED <<now, github, cache, lastTry>>

\* Under the lock, another invocation may have minted meanwhile.
LockToken(i) ==
    /\ At(i, "lock") /\ lock = None
    /\ IF Fresh(cache) THEN Goto(i, "look", cache) /\ UNCHANGED lock
       ELSE Goto(i, "mint", NoEntry) /\ lock' = i
    /\ UNCHANGED <<now, github, cache, lastTry>>

\* mint, up to its listing: the token of the current installation.
Mint(i) ==
    /\ At(i, "mint") /\ lastTry < now /\ lastTry' = now
    /\ Goto(i, "list", [NoEntry EXCEPT !.inst = github.inst, !.expires = now + Life, !.triedAt = now])
    /\ UNCHANGED <<now, github, cache, lock>>

\* It fails: a cached token that has not expired still serves.
MintFails(i) ==
    /\ At(i, "mint")
    /\ IF Serves(cache) THEN Goto(i, "look", cache) /\ lock' = None ELSE Answer(i, "error")
    /\ UNCHANGED <<now, github, cache, lastTry>>

\* Mutant: a new token without a list comes without the last one, too.
KeepNothing(entry) == entry

\* A new token whose listing failed keeps the same installation's last list.
KeepList(entry) ==
    IF cache.inst = entry.inst /\ cache.listedAt # Never
    THEN [entry EXCEPT !.has = cache.has, !.listedAt = cache.listedAt] ELSE entry

\* The listing of a new token, and the cache with both.  The write may fail.
StoreToken(i) ==
    /\ At(i, "list")
    /\ \E listed \in BOOLEAN :
         LET entry == IF listed THEN [proc[i].entry EXCEPT !.has = github.has,
                                                           !.listedAt = proc[i].entry.triedAt]
                      ELSE KeepList(proc[i].entry)
         IN  \/ /\ cache' = entry
                /\ IF entry.listedAt = Never THEN Answer(i, "error")
                   ELSE Goto(i, "look", entry) /\ lock' = None
             \/ UNCHANGED cache /\ Answer(i, "error")
    /\ UNCHANGED <<now, github, lastTry>>

-----------------------------------------------------------------------------
(* tokenFor *)

\* The repository is in the list, or the list is too young to be made again.
Look(i) ==
    LET entry == proc[i].entry IN
    /\ At(i, "look")
    /\ IF entry.has THEN Answer(i, "yes")
       ELSE IF now - Attempt(entry) < RelistInterval THEN Answer(i, NotInstalled(entry))
       ELSE Goto(i, "lock again", entry) /\ UNCHANGED lock
    /\ UNCHANGED <<now, github, cache, lastTry>>

\* What another invocation wrote while this one waited: all of it while its
\* token is fresh, else its list when that is newer.
Newer(entry) ==
    IF Fresh(cache) THEN cache
    ELSE IF cache # NoEntry /\ Attempt(cache) > Attempt(entry)
    THEN [entry EXCEPT !.has = cache.has, !.listedAt = cache.listedAt, !.triedAt = cache.triedAt]
    ELSE entry

LockList(i) ==
    LET entry == Newer(proc[i].entry) IN
    /\ At(i, "lock again") /\ lock = None
    /\ IF entry.has THEN Answer(i, "yes")
       ELSE IF now - Attempt(entry) < RelistInterval THEN Answer(i, NotInstalled(entry))
       ELSE Goto(i, "list again", entry) /\ lock' = i
    /\ UNCHANGED <<now, github, cache, lastTry>>

\* The time of the try is taken before the list is asked for.
TryList(i) ==
    /\ At(i, "list again") /\ lastTry < now /\ lastTry' = now
    /\ Goto(i, "relist", [proc[i].entry EXCEPT !.triedAt = now])
    /\ UNCHANGED <<now, github, cache, lock>>

\* The list is made again with the entry's token; one of an installation that
\* is gone, or that expired, fails.  A failed listing is written as a try.
Relist(i) ==
    LET tried == proc[i].entry IN
    /\ At(i, "relist")
    /\ \E listed \in BOOLEAN :
         LET entry == IF listed THEN [tried EXCEPT !.has = github.has, !.listedAt = tried.triedAt]
                      ELSE tried
         IN  /\ listed => tried.inst = github.inst /\ Serves(tried)
             /\ \/ cache' = entry /\ Answer(i, IF entry.has THEN "yes" ELSE NotInstalled(entry))
                \/ UNCHANGED cache /\ Answer(i, "error")
    /\ UNCHANGED <<now, github, lastTry>>

\* The invocation is killed.
Kill(i) ==
    /\ proc[i].at \notin {"start", "over"} /\ Answer(i, None)
    /\ UNCHANGED <<now, github, cache, lastTry>>

\* The next one of its kind.
Again(i) ==
    /\ At(i, "over") /\ now < MaxTime
    /\ proc' = [proc EXCEPT ![i] = [at |-> "start", entry |-> NoEntry, answer |-> None]]
    /\ UNCHANGED <<now, github, cache, lock, lastTry>>

\* The account adds the repository, or installs the App anew.
Account ==
    /\ github' \in {[github EXCEPT !.has = TRUE], [github EXCEPT !.inst = 2]} \ {github}
    /\ UNCHANGED <<now, cache, lock, proc, lastTry>>

Tick == now < MaxTime /\ now' = now + 1 /\ UNCHANGED <<github, cache, lock, proc, lastTry>>

Next ==
    \/ \E i \in Invocation :
          \/ ReadToken(i) \/ LockToken(i) \/ Mint(i) \/ MintFails(i) \/ StoreToken(i)
          \/ Look(i) \/ LockList(i) \/ TryList(i) \/ Relist(i) \/ Kill(i) \/ Again(i)
    \/ Account \/ Tick

Spec == Init /\ [][Next]_vars

-----------------------------------------------------------------------------
(* Properties *)

\* The type invariant.
TypeOK ==
    /\ now \in 0 .. MaxTime /\ lastTry \in Never .. MaxTime /\ github \in [inst : {1, 2}, has : BOOLEAN]
    /\ lock \in Invocation \cup {None}
    /\ \A e \in {cache} \cup {proc[i].entry : i \in Invocation} :
          /\ e.inst \in 0 .. 2 /\ e.expires \in 0 .. MaxTime + Life /\ e.has \in BOOLEAN
          /\ {e.listedAt, e.triedAt} \subseteq Never .. MaxTime
    /\ \A i \in Invocation :
          /\ proc[i].at \in {"start", "lock", "mint", "list", "look", "lock again", "list again", "relist", "over"}
          /\ proc[i].answer \in {None, "yes", "no", "error"}

\* Whatever invocations wait for each other and with whichever token they
\* write: a token with more than minRemaining left is never replaced, so that
\* those who find none mint one between them (token, tokenFor); the list of an
\* installation is never replaced by an older one or forgotten; and a list that
\* only a missing repository asks for comes at least relistInterval after the
\* last try of anyone.  A token with less left may be replaced by an older one:
\* tokenFor writes what it read before it waited when the cache's is not fresh.
ForwardStep ==
    /\ Fresh(cache) => cache'.inst = cache.inst /\ cache'.expires = cache.expires
    /\ (cache'.inst = cache.inst) =>
          cache'.listedAt >= cache.listedAt /\ cache'.triedAt >= cache.triedAt
    /\ \A i \in Invocation :
          (At(i, "list again") /\ At(i, "relist")' /\ cache.inst = proc[i].entry.inst)
              => now >= Attempt(cache) + RelistInterval
\* The action property that every step satisfies it.
CacheMovesForward == [][ForwardStep]_vars
================================================================================
