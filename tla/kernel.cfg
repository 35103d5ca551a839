\* Three tasks, one mutex, one event semaphore, delays of 1 tick and 2 ticks.
SPECIFICATION Spec
CONSTANTS
  main = main
  shell = shell
  server = server
  mutex = mutex
  event = event
  Tasks = {main, shell, server}
  Idle = idle
  Priority <- MCPriority
  RoundRobin = {main}
  Mutexes = {mutex}
  Events = {event}
  Users <- MCUsers
  Killers = {shell}
  Poll = poll
  PollDelay = 1
  Delays <- MCDelays
  MaxCount = 1
  None = none
INVARIANTS
  TypeOK
  HighestRuns
  SemExact
  DogsOfWaits
  TimeoutExact
PROPERTIES
  TimersIndependent
  WaitEnds
