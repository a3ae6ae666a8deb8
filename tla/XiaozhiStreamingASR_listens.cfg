SPECIFICATION FairSpec
CONSTANTS
  MaxListens = 2
  EarlyFinals = FALSE
  Plans <- OneOrTwoListens
INVARIANTS TypeOK OneAnswer NoOrphanStream SpokenOnce
PROPERTIES StopIsAnswered FinalIsAnswered
