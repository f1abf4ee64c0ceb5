SPECIFICATION Spec
CONSTANTS
  alice = alice
  bob = bob
  Zero = Zero
  Nft = Nft
  Address <- Accounts
  Contract <- BobOnly
  Acking <- BobOnly
  Pool <- OnePool
  Deployments <- AdminCouncil
  Appointees <- BobOnly
  Delegates <- BobOnly
  MaxPositions = 2
  U256 = 3
INVARIANTS
  NamedCouncilCanDisable
