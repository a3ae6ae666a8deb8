SPECIFICATION FairSpec
CONSTANTS
  a1 = a1
  a2 = a2
  h1 = h1
  h2 = h2
  NoOne = NoOne
  Tasks <- OneTask
  ProfessionalTasks <- OneTask
  Sayers <- NoSlots
  MaxTurns = 2
  MaxChunks = 1
  Vad = FALSE
  Faults = FALSE
  Rehello = FALSE
  ClientLeaves = FALSE
PROPERTIES InterruptIsWritten SpeakingEnds EveryVoiceEnds
