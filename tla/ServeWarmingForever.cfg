SPECIFICATION FairSpec
CONSTANTS
  Exposed <- MCExposed
  Reserved <- MCReserved
  Clients = {c1}
  Files <- MCFiles
  Deployed <- MCDeployed
  Content <- MCContent
  Offer <- MCOffer
  Tokens <- MCTokens
  CliDefault = "unset"
  MaxEdits = 1
PROPERTIES WarmingEnds
CHECK_DEADLOCK FALSE
