SPECIFICATION FairSpec
CONSTANTS
  QueueLimit = 2
  PrerollLimit = 1
  MaxListens = 2
  MaxFrames = 4
  Plans <- OneOrTwoListens
INVARIANTS TypeOK HeardInOrder HeardOnce DrainedMeansHeard
PROPERTY StopIsAnswered
