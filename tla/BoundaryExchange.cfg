SPECIFICATION FairSpec
CONSTANTS
  Ranks = {1, 2}
  MaxRounds = 3
INVARIANTS
  ReceiveBytesAreFree
  SendBytesAreStable
PROPERTIES
  ExchangeKeepsLockstep
  NegotiationHonoursRequests
  ExchangesEnd
