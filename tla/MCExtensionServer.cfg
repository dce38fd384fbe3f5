SPECIFICATION MCServerSpec
CONSTANTS
  alice = alice
  issuer = issuer
  rogueIssuer = rogueIssuer
  registry = registry
  policyId = policyId
  junk = junk
  Addresses <- mcAddresses
  Junk = junk
  Hour = 1
  MaxUint8 = 2
  MaxUint16 = 3
  MaxUint128 = 4
  Requests = {1, 2, 3}
  Names = {"ada"}
  NoName = noName
  AccessRequests <- mcAccessRequests
  Loose = loose
  Clocks = {1}
  MaxKills = 1
INVARIANTS
  ServerTypeOK
  Serialized
  AnswersFollowChain
PROPERTIES
  LostOnlyByCrash
  QueueDrains
CHECK_DEADLOCK FALSE
