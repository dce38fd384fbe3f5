-------------------------- MODULE MCExtensionServer --------------------------
(***************************************************************************)
(* ExtensionServer with three requests, one name, and a plaintext for each *)
(* place where the handling of an access request can end: a decision, a    *)
(* signature of another issuer (after the second await), a policy id that  *)
(* is no bytes32 (before it) and rules that do not encode.  Loose is the   *)
(* fifth.                                                                  *)
(***************************************************************************)
EXTENDS ExtensionServer

CONSTANTS alice, issuer, rogueIssuer, registry, policyId, junk

rules ==
  [allowedJurisdictions |-> <<"US">>, minimumInvestorCategory |-> 1,
   maximumRiskScore |-> 1, limitByCategory |-> [c \in {1} |-> 1]]

credential ==
  [account |-> alice, jurisdiction |-> "US", investorCategory |-> 1,
   riskScore |-> 0, expiresAt |-> 2]

accepted ==
  [registry |-> registry, account |-> alice, policyId |-> policyId,
   rulesHash |-> computePolicyRulesHash(rules), issuer |-> issuer,
   credential |-> credential,
   issuerSignature |-> [issuer |-> issuer, credential |-> credential],
   policy |-> rules, nonce |-> 1]

mcAccessRequests ==
  {accepted,
   [accepted EXCEPT !.issuerSignature.issuer = rogueIssuer],
   [accepted EXCEPT !.policyId = junk],
   [accepted EXCEPT !.policy.minimumInvestorCategory = MaxUint8 + 1]}

(* Requests are 1, 2, 3 in the order in which they arrive: their names     *)
(* mean nothing, and a symmetry set would not be sound for QueueDrains.    *)
arriveInOrder ==
  \A r \in Requests : stage[r] = "idle" /\ stage'[r] # "idle" =>
    \A q \in 1 .. r - 1 : stage[q] # "idle"

(* Two access requests meet at every pair of stages; the third request     *)
(* observes them from the chain or ends the process under them.            *)
MaxAccess == 2

fewAccessRequests ==
  Cardinality({r \in Requests : body'[r].op = "evaluate"}) <= MaxAccess

MCServerNext == ServerNext /\ arriveInOrder /\ fewAccessRequests

MCServerSpec == ServerInit /\ [][MCServerNext]_vars /\ ServerFairness

mcAddresses == {alice, issuer, rogueIssuer, registry}
=============================================================================
