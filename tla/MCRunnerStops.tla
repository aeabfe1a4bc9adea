---------------------------- MODULE MCRunnerStops ----------------------------
(* An instance of RunnerStops for TLC. *)
EXTENDS RunnerStops, TLC

CONSTANTS first, second,   \* reboot runs, on machines of their own
          operator,
          docker, podman,  \* units
          here, there      \* controllers

MCRun == {first, second}
MCUnit == {docker, podman}
MCPlanned == first :> MCUnit @@ second :> {docker}
MCPlannedEmpty == first :> MCUnit @@ second :> {}
MCController == first :> here @@ second :> there
MCFaults == AllFaults
=============================================================================
