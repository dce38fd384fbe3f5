-------------------------- MODULE AccessEvaluation --------------------------
(***************************************************************************)
(* The decision of fcc-extension/typescript/src/app/handlers.ts: what the  *)
(* TEE makes of a decrypted access request.  It holds no state; the server *)
(* that runs it is ExtensionServer, and AccessFlow takes its results to    *)
(* the registry.                                                           *)
(*                                                                         *)
(* A field of the wrong JSON type or format is Junk.  A signature is what  *)
(* was signed and by whom.                                                 *)
(***************************************************************************)
EXTENDS Integers, Sequences, FiniteSets

CONSTANTS
  Addresses,   \* well-formed addresses
  Junk,        \* a field that fails its type check
  Hour,        \* 3600 seconds, the longest life of a decision
  MaxUint8, MaxUint16, MaxUint128

ASSUME EvaluationAssumption ==
  /\ Junk \notin Addresses
  /\ Hour \in Nat

(* The credential and the policy are there, every field of its type.       *)
validCredential(credential) ==
  /\ credential # Junk
  /\ credential.account \in Addresses
  /\ credential.jurisdiction # Junk
  /\ credential.investorCategory \in Int
  /\ credential.riskScore \in Int
  /\ credential.expiresAt \in Int

validPolicy(policy) ==
  /\ policy # Junk
  /\ policy.allowedJurisdictions # Junk
  /\ policy.minimumInvestorCategory \in Int
  /\ policy.maximumRiskScore \in Int
  /\ policy.limitByCategory # Junk

(* Mutant: the policy id is not looked at.                                 *)
validateAccessRequestAnyPolicy(request) ==
  /\ request.registry \in Addresses
  /\ request.account \in Addresses
  /\ request.issuer \in Addresses
  /\ request.rulesHash # Junk
  /\ validCredential(request.credential)
  /\ validPolicy(request.policy)
  /\ request.nonce \in Nat \ {0}

validateAccessRequest(request) ==
  /\ request.registry \in Addresses
  /\ request.account \in Addresses
  /\ request.issuer \in Addresses
  /\ request.policyId # Junk
  /\ request.rulesHash # Junk
  /\ validCredential(request.credential)
  /\ validPolicy(request.policy)
  /\ request.nonce \in Nat \ {0}

(* encodeAbiParameters throws on a number outside its type.                *)
encodable(policy) ==
  /\ policy.minimumInvestorCategory \in 0 .. MaxUint8
  /\ policy.maximumRiskScore \in 0 .. MaxUint16
  /\ DOMAIN policy.limitByCategory \subseteq 0 .. MaxUint8
  /\ \A c \in DOMAIN policy.limitByCategory :
       policy.limitByCategory[c] \in 0 .. MaxUint128

(* Sorting forgets the order of the jurisdictions and nothing else, and    *)
(* the sorted categories with their limits are the function.               *)
occurrences(jurisdictions) ==
  [j \in {jurisdictions[i] : i \in 1 .. Len(jurisdictions)} |->
     Cardinality({i \in 1 .. Len(jurisdictions) : jurisdictions[i] = j})]

computePolicyRulesHash(policy) ==
  [jurisdictions |-> occurrences(policy.allowedJurisdictions),
   minimumInvestorCategory |-> policy.minimumInvestorCategory,
   maximumRiskScore |-> policy.maximumRiskScore,
   limitByCategory |-> policy.limitByCategory]

(* recoverTypedDataAddress: the signer of exactly this credential; over    *)
(* any other it recovers an address nobody named.                          *)
recoveredIssuer(request) ==
  IF request.issuerSignature.credential = request.credential
    THEN request.issuerSignature.issuer
    ELSE Junk

(* Mutant: the credential may be another account's.                        *)
eligibleAnyAccount(request, clock) ==
  LET credential == request.credential
      policy == request.policy
  IN  /\ credential.expiresAt > clock
      /\ credential.jurisdiction \in
           DOMAIN occurrences(policy.allowedJurisdictions)
      /\ credential.investorCategory >= policy.minimumInvestorCategory
      /\ credential.riskScore <= policy.maximumRiskScore

eligible(request, clock) ==
  LET credential == request.credential
      policy == request.policy
  IN  /\ credential.account = request.account
      /\ credential.expiresAt > clock
      /\ credential.jurisdiction \in
           DOMAIN occurrences(policy.allowedJurisdictions)
      /\ credential.investorCategory >= policy.minimumInvestorCategory
      /\ credential.riskScore <= policy.maximumRiskScore

(* A category without a limit is worth nothing.                            *)
limitUsd(request, clock) ==
  LET limits == request.policy.limitByCategory
      category == request.credential.investorCategory
  IN  IF eligible(request, clock) /\ category \in DOMAIN limits
        THEN limits[category] ELSE 0

lesser(a, b) == IF a < b THEN a ELSE b

(* The nine fields encoded into ActionResult.data.                         *)
decisionOf(request, clock) ==
  [targetRegistry |-> request.registry,
   account |-> request.account,
   policyId |-> request.policyId,
   rulesHash |-> request.rulesHash,
   credentialIssuer |-> request.issuer,
   eligible |-> eligible(request, clock) /\ limitUsd(request, clock) > 0,
   limitUsd |-> limitUsd(request, clock),
   expiresAt |-> lesser(request.credential.expiresAt, clock + Hour),
   nonce |-> request.nonce]

(* The checks before the decision that answer status 0, up to the second   *)
(* await and after it.                                                     *)
rulesMatch(request) ==
  computePolicyRulesHash(request.policy) = request.rulesHash

issuerMatches(request) == recoveredIssuer(request) = request.issuer

(* The handler answers status 1 with a decision.                           *)
decides(request) ==
  /\ validateAccessRequest(request)
  /\ encodable(request.policy)
  /\ rulesMatch(request)
  /\ issuerMatches(request)
=============================================================================
