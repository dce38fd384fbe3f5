SPECIFICATION RegistrySpec
CONSTANTS
  admin = admin
  alice = alice
  issuer = issuer
  rogueIssuer = rogueIssuer
  zero = zero
  salt = salt
  rules = rules
  otherRules = otherRules
  noRules = noRules
  tee = tee
  oldTee = oldTee
  here = here
  oldRegistry = oldRegistry
  chain = chain
  otherChain = otherChain
  Accounts = {admin, alice}
  Admin = admin
  Issuers = {issuer, rogueIssuer}
  ZeroAddress = zero
  Salts = {salt}
  RulesHashes = {rules, otherRules}
  NoRules = noRules
  Signers = {tee, oldTee}
  ThisRegistry = here
  ThisChain = chain
  SignedDecisions <- mcSignedDecisions
  SignedFccResults <- mcSignedFccResults
  MaxTime = 3
INVARIANTS
  RegistryTypeOK
  PassesBacked
  ConsumedIsCovered
PROPERTIES
  GrantsAuthorized
  CommitmentImmutable
  ImplementsLedger
