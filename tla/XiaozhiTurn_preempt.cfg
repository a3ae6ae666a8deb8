SPECIFICATION Spec
CONSTANTS
  a1 = a1
  a2 = a2
  h1 = h1
  h2 = h2
  NoOne = NoOne
  Tasks <- OneTask
  ProfessionalTasks <- NoSlots
  Sayers <- OneSayer
  MaxTurns = 2
  MaxChunks = 0
  Vad = TRUE
  Faults = FALSE
  Rehello = FALSE
  ClientLeaves = TRUE
INVARIANTS Ownership
