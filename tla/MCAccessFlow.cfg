SPECIFICATION FlowSpec
CONSTANTS
  alice = alice
  bob = bob
  issuer = issuer
  rogueIssuer = rogueIssuer
  zero = zero
  salt = salt
  noRules = noRules
  here = here
  chain = chain
  tee = tee
  tee2 = tee2
  junk = junk
  Accounts = {alice}
  Admin = alice
  Issuers = {issuer}
  ZeroAddress = zero
  Salts = {salt}
  RulesHashes <- mcHashes
  NoRules = noRules
  Signers = {tee}
  ThisRegistry = here
  ThisChain = chain
  SignedDecisions = {}
  SignedFccResults <- mcResults
  MaxTime = 1
  Addresses <- mcAddresses
  Junk = junk
  Hour = 2
  MaxUint8 = 2
  MaxUint16 = 3
  MaxUint128 = 4
  Tees = {tee}
  Sessions = {s1, s2}
  AccountOf <- mcAccountOf
  ThePolicy <- mcPolicy
  PolicyRules <- rules
  Packages <- mcPackages
  OtherRequests <- mcOtherRequests
  Clocks = {0}
  MaxNonce = 2
  MaxInstructions = 2
  MaxAttempts = 1
  MaxRefreshes = 1
SYMMETRY symmetry
INVARIANTS
  FlowTypeOK
  PassesEarned
  IssuedIsHeld
PROPERTIES
  NoNonceGap
