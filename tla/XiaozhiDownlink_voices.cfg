SPECIFICATION FairSpec
CONSTANTS
  Interrupts <- WhileOneSpeaks
  Prebuffer = 1
  MaxChunks = 3
  Undecodable <- OneVoiceFails
INVARIANTS TypeOK Paced
PROPERTIES NothingAfterStop InterruptHeard SpeechStops VoicesEnd
