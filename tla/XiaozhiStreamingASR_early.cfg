SPECIFICATION FairSpec
CONSTANTS
  MaxListens = 1
  EarlyFinals = TRUE
  Plans <- PlainListen
PROPERTY FinalIsAnswered
