--------------------------- MODULE MCReservations ---------------------------
(* Instances of Reservations for TLC. *)
EXTENDS Reservations, TLC

CONSTANTS a, b, c,    \* hosts: a and b form the serial group
          fleet, one  \* a fleet run and a single-host run

MCHost == {a, b, c}
MCRun == {fleet, one}
MCGroup == fleet :> {a, b} @@ one :> {a, b}
MCChanged == fleet :> {a, b} @@ one :> {b}

\* The fleet run is started outside the group, the other one on a member.
MCController == fleet :> c @@ one :> a
MCFleet == {fleet}

EverythingElse == AllFaults \ {"dropMidInspection"}
MidInspection == {"crash", "orphan", "dropMidInspection"}
NoFaults == {}
=============================================================================
