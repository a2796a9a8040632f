SPECIFICATION FairSpec
CONSTANTS
  Exposed <- MCExposed
  Reserved <- MCReserved
  Clients = {c1}
  Files <- MCFiles
  Deployed <- MCDeployed
  Content <- MCContent
  Offer <- MCOffer
  Tokens <- MCTokens
  CliDefault = "unset"
  MaxEdits = 2
INVARIANTS TypeOK    CleanExit EditNoticed
PROPERTIES StopEnds RequestEnds GatewaySpec
CHECK_DEADLOCK FALSE
