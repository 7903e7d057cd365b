SPECIFICATION Spec
CONSTANTS
  Order <- MCOrder
  Profiles = {"provider", "root"}
  Persistent = {"root"}
  Hosted = {"root"}
  Slots = 2
  Actions = {"up", "down"}
  Commands = 2
  Reboots = 1
  Moves = 0
  Faults = 2
INVARIANTS
  OneProcess
  SessionIsRecorded
CHECK_DEADLOCK FALSE
