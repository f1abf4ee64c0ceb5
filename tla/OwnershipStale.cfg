SPECIFICATION Spec
CONSTANTS
  alice = alice
  bob = bob
  Zero = Zero
  Nft = Nft
  Address <- Accounts
  Contract <- BobOnly
  Acking <- BobOnly
  Pool <- OnePool
  Deployments <- OneDeployment
  Appointees <- BobOrNft
  Delegates <- BobOnly
  MaxPositions = 2
  U256 = 3
PROPERTIES
  OnlyOwnerConsents
