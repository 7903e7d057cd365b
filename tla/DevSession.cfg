SPECIFICATION Spec
CONSTANTS
  Order <- MCOrder
  Profiles = {"provider", "root"}
  Persistent = {"provider"}
  Hosted = {"root"}
  Slots = 1
  Actions = {"up", "down", "restore", "access", "smoke"}
  Commands = 2
  Reboots = 1
  Moves = 1
  Faults = 2
PROPERTIES
  ResumeSucceeds
CHECK_DEADLOCK FALSE
