\* A client with up to five requests and three packets, one stray, lost or
\* repeated packet, and three datagrams for each of the other chains.
CONSTANTS
  Chains = {"airplay", "sbc", "ac3", "scream"}
  MaxRequests = 5
  MaxPackets = 3
  MaxFaults = 1
  SbcFrame = 119
  SbcSamples = 512
SPECIFICATION Spec
INVARIANTS AnswersMatch  
CHECK_DEADLOCK FALSE
