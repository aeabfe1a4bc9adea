CONSTANTS
  first = first
  second = second
  operator = operator
  docker = docker
  podman = podman
  here = here
  there = there
  None = None
  Run <- MCRun
  Resume = {operator}
  Unit <- MCUnit
  Planned <- MCPlanned
  Controller <- MCController
  Faults <- MCFaults
  Budget = 1
SPECIFICATION FairSpec
INVARIANTS
  TypeOK
  StoppedIsRecorded
  CommandOwnsRecord
  ResumeIsReserved
PROPERTIES
  NoStartBeforeReboot
  Recovered
CHECK_DEADLOCK FALSE
