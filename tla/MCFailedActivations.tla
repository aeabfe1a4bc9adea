------------------------ MODULE MCFailedActivations ------------------------
(* Instances of FailedActivations for TLC. *)
EXTENDS FailedActivations

CONSTANTS one, two, other,   \* jobs: two runs of web, one of another target
          web, db,           \* targets
          old, new           \* generations

MCJob == {one, two, other}
PairJob == {one, two}
MCTarget == one :> web @@ two :> web @@ other :> db
PairTarget == one :> web @@ two :> web
MCGen == {old, new}
Recoverable == {"interrupt", "unusable", "power"}
Orphans == {"orphan"}
Unsynced == {"power", "unsynced"}
=============================================================================
