SPECIFICATION FairServerSpec
CONSTANTS
  alice = alice
  issuer = issuer
  rogueIssuer = rogueIssuer
  registry = registry
  policyId = policyId
  junk = junk
  Addresses <- mcAddresses
  Junk = junk
  Hour = 1
  MaxUint8 = 2
  MaxUint16 = 3
  MaxUint128 = 4
  Requests = {r1, r2}
  Names = {"ada"}
  NoName = noName
  AccessRequests <- mcAccessRequests
  Loose = loose
  Clocks = {1}
  MaxKills = 1
PROPERTIES
  RoutedIsAnswered
CHECK_DEADLOCK FALSE
