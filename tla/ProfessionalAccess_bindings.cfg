SPECIFICATION FairSpec
CONSTANTS
  w1 = w1
  d1 = d1
  d2 = d2
  public_only = public_only
  personal_only = personal_only
  voice = voice
  NoTarget = NoTarget
  Workspaces = {w1}
  Devices = {d1, d2}
  Scopes = {public_only, personal_only}
  Grants <- PublicOrAll
  Queries = {voice}
  Spoken = {voice}
  MaxBindings = 3
INVARIANT TypeOK
PROPERTIES DecisionFollows RecordsEnd
