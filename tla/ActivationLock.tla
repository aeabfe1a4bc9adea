--------------------------- MODULE ActivationLock ---------------------------
(***************************************************************************)
(* What the shared deployment reservations promise (ADR-0019): a run works *)
(* on the members of its group only while it owns all of them, and no      *)
(* member changes hands while its owner's work goes on.  How ownership is  *)
(* taken, lost and given back (calls that fail, torn directories, operator *)
(* releases) is the business of Reservations, which implements this.       *)
(***************************************************************************)
CONSTANTS
    Host,       \* the inventory's hosts: one reservation each
    Run,        \* deployment invocations, each with a random token
    Group,      \* the members a run reserves
    Free,       \* nobody owns the host
    Ownerless   \* a reservation whose owner was never written

VARIABLES
    owner,      \* who owns each host
    working     \* the runs whose activation work is going on

vars == <<owner, working>>

TypeOK ==
    /\ owner \in [Host -> Run \cup {Free, Ownerless}]
    /\ working \subseteq Run

Init ==
    /\ owner = [h \in Host |-> Free]
    /\ working = {}

\* A run takes some free members of its group.  An acquisition that is torn
\* leaves a subset of them, and may leave a member owned by nobody.
Take(i) ==
    /\ \E S \in SUBSET Group[i] :
         /\ \A h \in S : owner[h] = Free
         /\ \E own \in [S -> {i, Ownerless}] :
              owner' = [h \in Host |-> IF h \in S THEN own[h] ELSE owner[h]]
    /\ UNCHANGED working

\* A member is given back only when its owner has no work left.
Drop(h) ==
    /\ owner[h] # Free
    /\ owner[h] \notin working
    /\ owner' = [owner EXCEPT ![h] = Free]
    /\ UNCHANGED working

\* Work begins under the complete reservation only.
Begin(i) ==
    /\ i \notin working
    /\ \A h \in Group[i] : owner[h] = i
    /\ working' = working \cup {i}
    /\ UNCHANGED owner

End(i) ==
    /\ i \in working
    /\ working' = working \ {i}
    /\ UNCHANGED owner

Next ==
    \/ \E i \in Run : Take(i) \/ Begin(i) \/ End(i)
    \/ \E h \in Host : Drop(h)

Spec == Init /\ [][Next]_vars

(* Work goes on only under the worker's own, complete reservation. *)
Protected == \A i \in working : \A h \in Group[i] : owner[h] = i

(* Two runs that share a member never work at the same time. *)
Exclusive ==
    \A i, j \in working : i # j => Group[i] \cap Group[j] = {}
=============================================================================
