--------------------------- MODULE AccessRegistry ---------------------------
(***************************************************************************)
(* contracts/AccessRegistry.sol over contracts/PolicyRegistry.sol: TEE     *)
(* signers are registered by the admin, and anyone may relay a signed      *)
(* decision, which becomes an access pass.  Two calls do so.               *)
(* submitDecision takes an EIP-712 signed decision; submitFccDecision      *)
(* takes the signed result of an FCC action and also holds the decision    *)
(* against the commitment stored in the policy.                            *)
(*                                                                         *)
(* The signatures that exist are constants: a relay can hold any of them   *)
(* back, present them in any order, and present them again.                *)
(***************************************************************************)
EXTENDS PolicyRegistry

CONSTANTS
  Signers,          \* addresses the admin may register as TEE signers
  ThisRegistry,     \* address(this)
  ThisChain,        \* block.chainid
  SignedDecisions,  \* decisions signed for submitDecision
  SignedFccResults, \* action results signed for submitFccDecision
  MaxTime           \* bound on block.timestamp

(* The decision every signed message carries.                              *)
DecisionFields(r) ==
  /\ r.account \in Accounts
  /\ r.policyId \in PolicyIds
  /\ r.eligible \in BOOLEAN
  /\ r.limitUsd \in Nat
  /\ r.expiresAt \in Nat
  /\ r.nonce \in Nat

ASSUME SignedAssumption ==
  /\ \A m \in SignedDecisions : DecisionFields(m)
  /\ \A r \in SignedFccResults : DecisionFields(r)

ASSUME SignerAssumption == ZeroAddress \notin Signers /\ MaxTime \in Nat

VARIABLES
  registeredTeeSigners, \* the signers whose flag is set
  usedDecisions,        \* digests of decisions already granted
  usedFccActions,       \* ids of FCC actions already granted
  accessPasses,         \* account -> policyId -> AccessPass
  now                   \* block.timestamp

registryVars ==
  <<policies, registeredTeeSigners, usedDecisions, usedFccActions,
    accessPasses, now>>

Passes == [limitUsd: Nat, expiresAt: Nat, nonce: Nat]

NoPass == [limitUsd |-> 0, expiresAt |-> 0, nonce |-> 0]

passOf(m) ==
  [limitUsd |-> m.limitUsd, expiresAt |-> m.expiresAt, nonce |-> m.nonce]

(* keccak256 over the decision's fields: injective.                        *)
decisionDigest(m) ==
  <<m.account, m.policyId, m.eligible, passOf(m)>>

(* Mutant: the digest leaves the domain separator out.                     *)
_recoverAnyDomain(m) == m.signer

(* ecrecover over the digest of this chain and this registry: what was     *)
(* signed for another domain recovers an address nobody holds a key for.   *)
(* A malformed signature reverts, which no registered signer matches.      *)
_recover(m) ==
  IF m.chain = ThisChain /\ m.verifyingContract = ThisRegistry
    THEN m.signer ELSE ZeroAddress

(* The signed hash of an FCC result covers the chain, not the registry.    *)
_recoverFccSigner(r) == IF r.chain = ThisChain THEN r.signer ELSE ZeroAddress

getAccess(account, policyId) == accessPasses[account][policyId]

canAccess(account, policyId) ==
  /\ isPolicyActive(policyId)
  /\ getAccess(account, policyId).expiresAt > now

RegistryInit ==
  /\ PolicyInit
  /\ registeredTeeSigners = {}
  /\ usedDecisions = {}
  /\ usedFccActions = {}
  /\ accessPasses = [a \in Accounts |-> [p \in PolicyIds |-> NoPass]]
  /\ now = 0

(* Mutant: the zero address may be registered.                             *)
setTeeSignerUnchecked(sender, signer, registered) ==
  /\ sender = Admin
  /\ registeredTeeSigners' =
       IF registered THEN registeredTeeSigners \cup {signer}
                     ELSE registeredTeeSigners \ {signer}
  /\ UNCHANGED <<policies, usedDecisions, usedFccActions, accessPasses, now>>

setTeeSigner(sender, signer, registered) ==
  /\ sender = Admin
  /\ signer # ZeroAddress
  /\ registeredTeeSigners' =
       IF registered THEN registeredTeeSigners \cup {signer}
                     ELSE registeredTeeSigners \ {signer}
  /\ UNCHANGED <<policies, usedDecisions, usedFccActions, accessPasses, now>>

(* Mutant: the nonce is not compared.                                      *)
grantUnordered(m) ==
  accessPasses' = [accessPasses EXCEPT ![m.account][m.policyId] = passOf(m)]

(* The end of both submissions: the nonce check and the pass written.      *)
grant(m) ==
  /\ m.nonce > getAccess(m.account, m.policyId).nonce
  /\ accessPasses' =
       [accessPasses EXCEPT ![m.account][m.policyId] = passOf(m)]

submitDecision(m) ==
  /\ isPolicyActive(m.policyId)
  /\ m.eligible
  /\ m.expiresAt > now
  /\ decisionDigest(m) \notin usedDecisions
  /\ _recover(m) \in registeredTeeSigners
  /\ grant(m)
  /\ usedDecisions' = usedDecisions \cup {decisionDigest(m)}
  /\ UNCHANGED <<policies, registeredTeeSigners, usedFccActions, now>>

(* Mutant: the commitment of the policy is not compared.                   *)
matchesPolicyUnchecked(r) ==
  policyExists(r.policyId) /\ isPolicyActive(r.policyId)

(* getPolicy and the three checks against the stored policy.               *)
matchesPolicy(r) ==
  /\ policyExists(r.policyId)
  /\ isPolicyActive(r.policyId)
  /\ r.rulesHash = policies[r.policyId].rulesHash
  /\ r.credentialIssuer = policies[r.policyId].credentialIssuer

submitFccDecision(r) ==
  /\ r.status = 1
  /\ r.actionId \notin usedFccActions
  /\ _recoverFccSigner(r) \in registeredTeeSigners
  /\ r.targetRegistry = ThisRegistry
  /\ matchesPolicy(r)
  /\ r.eligible
  /\ r.expiresAt > now
  /\ grant(r)
  /\ usedFccActions' = usedFccActions \cup {r.actionId}
  /\ UNCHANGED <<policies, registeredTeeSigners, usedDecisions, now>>

tick ==
  /\ now < MaxTime
  /\ now' = now + 1
  /\ UNCHANGED <<policies, registeredTeeSigners, usedDecisions,
                 usedFccActions, accessPasses>>

PolicyCall ==
  /\ \/ \E sender \in Accounts, salt \in Salts,
           issuer \in Issuers \cup {ZeroAddress}, rulesHash \in RulesHashes :
          createPolicy(sender, salt, issuer, rulesHash)
     \/ \E sender \in Accounts, id \in PolicyIds, active \in BOOLEAN :
          setPolicyActive(sender, id, active)
  /\ UNCHANGED <<registeredTeeSigners, usedDecisions, usedFccActions,
                 accessPasses, now>>

RegistryNext ==
  \/ PolicyCall
  \/ \E sender \in Accounts, signer \in Signers \cup {ZeroAddress},
        registered \in BOOLEAN : setTeeSigner(sender, signer, registered)
  \/ \E m \in SignedDecisions : submitDecision(m)
  \/ \E r \in SignedFccResults : submitFccDecision(r)
  \/ tick

RegistrySpec == RegistryInit /\ [][RegistryNext]_registryVars
-----------------------------------------------------------------------------
RegistryTypeOK ==
  /\ PolicyTypeOK
  /\ registeredTeeSigners \subseteq Signers
  /\ usedDecisions \subseteq {decisionDigest(m) : m \in SignedDecisions}
  /\ usedFccActions \subseteq {r.actionId : r \in SignedFccResults}
  /\ accessPasses \in [Accounts -> [PolicyIds -> Passes]]
  /\ now \in Nat

(* The evidence behind a pass, taken from the direct path: an eligible     *)
(* decision signed for this chain and this registry.                       *)
SignedForHere(m) ==
  m.eligible /\ m.chain = ThisChain /\ m.verifyingContract = ThisRegistry

(* The evidence behind a pass, taken from the FCC path: a successful       *)
(* action whose data names this registry and the policy's commitment.      *)
CommittedResult(r) ==
  /\ r.status = 1
  /\ r.eligible
  /\ r.chain = ThisChain
  /\ r.targetRegistry = ThisRegistry
  /\ r.rulesHash = policies[r.policyId].rulesHash
  /\ r.credentialIssuer = policies[r.policyId].credentialIssuer

GrantedTo(m, account, policyId) ==
  m.account = account /\ m.policyId = policyId

BackedByDecision(account, policyId) ==
  \E m \in SignedDecisions :
    /\ GrantedTo(m, account, policyId)
    /\ passOf(m) = getAccess(account, policyId)
    /\ SignedForHere(m)
    /\ decisionDigest(m) \in usedDecisions

BackedByResult(account, policyId) ==
  \E r \in SignedFccResults :
    /\ GrantedTo(r, account, policyId)
    /\ passOf(r) = getAccess(account, policyId)
    /\ CommittedResult(r)
    /\ r.actionId \in usedFccActions

(* Every pass that was ever granted exists on an existing policy and is    *)
(* backed by consumed evidence: a used decision with exactly its terms, or *)
(* a used action whose result has its terms and still names the rules hash *)
(* and the issuer stored in the policy, however the policy was flipped or  *)
(* signers were removed since (AccessRegistry.sol 123-222).                *)
PassesBacked ==
  \A a \in Accounts, p \in PolicyIds :
    getAccess(a, p).nonce > 0 =>
      /\ policyExists(p)
      /\ BackedByDecision(a, p) \/ BackedByResult(a, p)

(* What was consumed on one path is no longer acceptable on either: the    *)
(* current pass of its account and policy has at least its nonce, so a     *)
(* relay that replays it, or submits a decision with the same nonce        *)
(* through the other call, fails on the nonce even where the used flag of  *)
(* that call does not know it.                                             *)
ConsumedIsCovered ==
  /\ \A m \in SignedDecisions :
       decisionDigest(m) \in usedDecisions =>
         m.nonce <= getAccess(m.account, m.policyId).nonce
  /\ \A id \in usedFccActions : \E r \in SignedFccResults :
       /\ r.actionId = id
       /\ r.nonce <= getAccess(r.account, r.policyId).nonce

(* A step that changes a pass consumes one piece of evidence that was      *)
(* never consumed before and that is signed, for this chain and registry,  *)
(* by a signer registered at that moment.  It covers both paths: signers   *)
(* removed between the evaluation and the relay, decisions signed for an   *)
(* earlier deployment, and one action relayed twice with two results.      *)
GrantsAuthorized ==
  [][accessPasses' # accessPasses =>
       \/ \E m \in SignedDecisions :
            /\ passOf(m) = accessPasses'[m.account][m.policyId]
            /\ SignedForHere(m)
            /\ m.signer \in registeredTeeSigners
            /\ decisionDigest(m) \in usedDecisions' \ usedDecisions
       \/ \E r \in SignedFccResults :
            /\ passOf(r) = accessPasses'[r.account][r.policyId]
            /\ CommittedResult(r)
            /\ r.signer \in registeredTeeSigners
            /\ r.actionId \in usedFccActions' \ usedFccActions
    ]_registryVars

(* Once created, a policy keeps its owner, issuer and rules hash whoever   *)
(* calls what: a TEE evaluates the rules the owner committed to            *)
(* (PolicyRegistry.sol 40-76).                                             *)
CommitmentImmutable ==
  [][\A id \in PolicyIds : policyExists(id) =>
       policies'[id] = [policies[id] EXCEPT !.active = policies'[id].active]
    ]_registryVars

(* The registries implement the abstract ledger of access passes: a pass   *)
(* only ever gives way to a larger nonce, unexpired, on an active policy.  *)
Ledger ==
  INSTANCE AccessPassLedger WITH
    Holders <- Accounts,
    Passes <- {passOf(m) : m \in SignedDecisions \cup SignedFccResults},
    activePolicies <- {p \in PolicyIds : isPolicyActive(p)}

ImplementsLedger == Ledger!LedgerSpec
=============================================================================
