CONSTANTS
  first = first
  second = second
  operator = operator
  docker = docker
  podman = podman
  here = here
  there = there
  None = None
  Run <- MCRun
  Resume = {operator}
  Unit <- MCUnit
  Planned <- MCPlannedEmpty
  Controller <- MCController
  Faults <- MCFaults
  Budget = 1
SPECIFICATION Spec
INVARIANT
  NotBehindResume
CHECK_DEADLOCK FALSE
