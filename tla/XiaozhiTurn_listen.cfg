SPECIFICATION Spec
CONSTANTS
  a1 = a1
  a2 = a2
  h1 = h1
  h2 = h2
  NoOne = NoOne
  Tasks <- TwoTasks
  ProfessionalTasks <- NoSlots
  Sayers <- NoSlots
  MaxTurns = 2
  MaxChunks = 1
  Vad = FALSE
  Faults = TRUE
  Rehello = TRUE
  ClientLeaves = FALSE
SYMMETRY SlotSymmetry
INVARIANTS TypeOK OneStopPerAnswer 
PROPERTIES WireSpec NothingAfterStop  StopNamesSpeaker
