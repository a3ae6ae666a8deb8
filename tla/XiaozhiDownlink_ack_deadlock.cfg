SPECIFICATION FairSpec
CONSTANTS
  Interrupts <- WhileBothSpeak
  Prebuffer = 1
  MaxChunks = 1
  Undecodable <- NoVoiceFails
PROPERTY InterruptHeard
