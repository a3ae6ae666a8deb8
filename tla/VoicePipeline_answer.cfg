SPECIFICATION FairSpec
CONSTANTS
  MaxText = 2
  TextCap = 1
  AudioCap = 1
  EventCap = 1
INVARIANTS TypeOK OneProvider CompletedIsWhole
PROPERTIES AnswerSpec CancelReturns
