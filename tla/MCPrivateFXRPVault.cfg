SPECIFICATION VaultSpec
CONSTANTS
  alice = alice
  bob = bob
  Holders = {alice, bob}
  PolicyIds = {"xrp-tier1"}
  Passes <- mcPasses
  MaxTime = 2
  Vault = vault
  VaultPolicy = "xrp-tier1"
  Amounts = {0, 1, 2}
  Prices = {0, 3}
  MaxAge = 1
  LimitScale = 1
  FxrpUnit = 2
  PriceScale = 1
  MaxUint = 9
  InitialBalance <- mcInitialBalance
INVARIANTS
  VaultTypeOK
  OthersBacked
  ExitOpen
PROPERTIES
  ImplementsAtomicVault
  DepositWithinLimit
