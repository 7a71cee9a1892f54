\* Two processes, two components, two edits of the inputs, two faults.
CONSTANTS
  p1 = p1
  p2 = p2
  Processes = {p1, p2}
  Components = {"core", "io"}
  MaxEdits = 2
  MaxFaults = 2
SPECIFICATION Spec
INVARIANTS OutIsOneRelease TempsAreAccountedFor
PROPERTIES AcceptedWasCurrent Refines
CHECK_DEADLOCK FALSE
